---- MODULE Spec2Model ----
(***************************************************************************)
(* Process life cycle, ready queue and interrupt-safe locking of the KFS    *)
(* kernel.                                                                  *)
(*                                                                          *)
(* kernel/src/process.rs is modelled from its code: ProcessState,           *)
(* ProcessStateAtomic, ProcessStruct::new, create_first_process,            *)
(* set_start_arguments and kill.  The scheduler and sync modules            *)
(* (add_to_schedule_queue, schedule, unschedule, SpinLockIRQ) are called by *)
(* that code but their bodies are not part of the sources at hand; they are *)
(* modelled from sections 4.4 and 5 of the specification.                   *)
(*                                                                          *)
(* Atomic operations on pstate are single steps; a function that performs   *)
(* several of them is split at each one, so that every interleaving of      *)
(* concurrent callers is a behaviour of the model.                          *)
(***************************************************************************)
EXTENDS Integers, Sequences, FiniteSets, TLC

\* ------------------------------------------------------------------ bounds

\* Number of processes: process 1 is the boot process, the others are made
\* by ProcessStruct::new.
NumProcs == 3

\* Number of concurrent callers of set_start_arguments.
NumStarters == 2

\* Number of concurrent callers of kill.
NumKillers == 1

\* Deepest nesting of SpinLockIRQ acquisitions by one process.
MaxNesting == 2

\* Pieces that one constructed Mapping is split into.
MaxMappings == 3

\* Longest length, in pages, passed to a constructor or to split_at.
MaxPages == 3

\* Longest frame list passed to new_regular and new_shared.
MaxRegions == 2

\* Most frames in one PhysicalMemRegion of such a list.
MaxRegionFrames == 2

\* Frames the frame allocator manages besides the reserved frame 0.
MaxFrames == 4

\* Frame lists callers hold at a time.
MaxLive == 2

\* Pages of UserLand, the part of an address space below KernelLand.
UserPages == 3

\* Calls of add_handle on one HandleTable.
MaxHandles == 6

\* Ids a call of add_handle probes before it finds a vacant one.
MaxProbes == 2

\* Pages of UserLand in the address space of a process main loads.
ProcessPages == 9

\* Pages of the largest segment of a module.
MaxSegmentPages == 3

\* Modules the bootloader passes after the kernel's own.
MaxModules == 2

\* Timer interrupts counted while the kernel boots.
MaxTicks == 2

Procs == 1 .. NumProcs
NoProc == 0
InitProc == 1
Starters == 1 .. NumStarters
Killers == 1 .. NumKillers

\* ------------------------------------------------------------ ProcessState

\* process.rs:105-112
ProcessState == {"Running", "Scheduled", "Stopped", "Readying", "NotReady", "Killed"}

VARIABLES
    pstate,                 \* ProcessStruct.pstate of every process
    pint_disable_counter,   \* ProcessStruct.pint_disable_counter
    frameWrites,            \* times prepare_for_first_schedule wrote the kernel stack
    starter,                \* callers of set_start_arguments: position, target, result
    killer,                 \* callers of kill: position, target
    queue,                  \* the scheduler's ready queue (FIFO)
    current,                \* the scheduler's running slot, NoProc when idle
    tornDown,               \* processes the scheduler has torn down
    interrupts,             \* the CPU's interrupt flag
    savedIF,                \* interrupt flag in each saved hardware context
    lockHolder,             \* holder of the SpinLockIRQ L that waiters sleep on
    waiters,                \* wait list protected by L
    upc,                    \* each process's position in lock(); unschedule()
    mappings,               \* the Mapping values that exist
    ret,                    \* the last call on a Mapping: arguments and value returned
    bitmap,                 \* the frame allocator's bitmap: TRUE for a frame in use
    live,                   \* the frame lists callers of the frame allocator hold
    fcall,                  \* the last call on the frame allocator
    address_space,          \* the mappings of a process's address space, by address
    page_tables,            \* its page tables: the entry of every page of UserLand
    mcall,                  \* the last call on the address space, its range if it succeeded
    snapshot,               \* what the address space was before that call
    phandles,               \* the HandleTable of a process
    hcall,                  \* the last call on the HandleTable
    module_tags,            \* the bootloader's module tags, the kernel's first
    bootpc,                 \* the boot CPU's position in common_start and main
    module,                 \* how many modules main's loop has taken
    processes,              \* the ProcessStructs made so far, in order
    events,                 \* ProcessStruct::new, ThreadStruct::new and start calls
    logger_locked,          \* whether the SerialLogger's lock is held
    serial,                 \* what do_panic wrote to the SerialLogger
    INTERRUPT_DISARM,       \* set by sync::permanently_disable_interrupts
    panicked,               \* the steps of do_panic that have run
    ticks,                  \* timer interrupts taken since common_start
    pmemlock,               \* the memory of the process main is loading
    stackpc,                \* main's position in loading it
    stack,                  \* what find_available_space returned
    user_sp                 \* the initial stack pointer main computed

vars == <<pstate, pint_disable_counter, frameWrites, starter, killer, queue,
          current, tornDown, interrupts, savedIF, lockHolder, waiters, upc,
          mappings, ret, bitmap, live, fcall, address_space, page_tables, mcall,
          snapshot, phandles, hcall, module_tags, bootpc, module, processes,
          events, logger_locked, serial, INTERRUPT_DISARM, panicked, ticks,
          pmemlock, stackpc, stack, user_sp>>

procVars == <<pstate, pint_disable_counter, frameWrites>>
callVars == <<starter, killer>>
schedVars == <<queue, current, tornDown, savedIF>>
syncVars == <<interrupts, lockHolder, waiters, upc>>
mapVars == <<mappings, ret>>
kernelVars == <<procVars, callVars, schedVars, syncVars>>
frameVars == <<bitmap, live, fcall>>
memVars == <<address_space, page_tables, mcall, snapshot>>
handleVars == <<phandles, hcall>>
mainVars == <<module_tags, bootpc, module, processes, events>>
panicVars == <<logger_locked, serial, INTERRUPT_DISARM, panicked>>
bootVars == <<mainVars, panicVars, ticks>>
stackVars == <<pmemlock, stackpc, stack, user_sp>>
nonKernelVars == <<stackVars, mapVars, frameVars, memVars, handleVars, bootVars>>
nonMapVars == <<stackVars, kernelVars, frameVars, memVars, handleVars, bootVars>>
nonFrameVars == <<stackVars, kernelVars, mapVars, memVars, handleVars, bootVars>>
nonMemVars == <<stackVars, kernelVars, mapVars, handleVars, bootVars>>
nonHandleVars == <<stackVars, kernelVars, mapVars, frameVars, memVars, bootVars>>
nonBootVars == <<stackVars, procVars, callVars, schedVars, lockHolder, waiters, upc, mapVars,
                 frameVars, memVars, handleVars>>

\* ------------------------------------------------------------------ values

\* mapping.rs:24-29
Mapping(address, length, mtype, flags) ==
    [address |-> address, length |-> length, mtype |-> mtype, flags |-> flags]

\* mapping.rs:36-54: a MappingType; frames is the Vec<PhysicalMemRegion> of
\* Regular and Shared, empty for the other kinds.
MappingType(kind, frames) == [kind |-> kind, frames |-> frames]

\* A PhysicalMemRegion: frames contiguous frames from frame number address.
PhysicalMemRegion(address, frames) == [address |-> address, frames |-> frames]

\* A usize is kept as its quotient and remainder by PAGE_SIZE, the value
\* being page * PAGE_SIZE + off, so that 32-bit words are exact although no
\* number above 2^31 is formed.
usize(page, off) == [page |-> page, off |-> off]

\* Result and Option values: Ok(v) and Ok(Some(v)) carry one value,
\* Ok(None) and Err(e) none.
Ok(v) == [err |-> "none", value |-> <<v>>]
OkNone == [err |-> "none", value |-> << >>]
Err(e) == [err |-> e, value |-> << >>]

\* A call on a Mapping: the function called, its arguments (address, length,
\* flags and frames for a constructor, the index of the Mapping and the
\* offset for split_at) and the value returned.
Call(address, length, flags, frames, op, index, offset, returned) ==
    [address |-> address, length |-> length, flags |-> flags, frames |-> frames,
     op |-> op, index |-> index, offset |-> offset, returned |-> returned]

\* What a call on an address space leaves: the value returned, the frame
\* allocator's bitmap (self), the mappings and the page tables.
Outcome(returned, self, space, tables) ==
    [returned |-> returned, self |-> self, space |-> space, tables |-> tables]

\* A call on the frame allocator: the function called, the frame list
\* dropped (its index among the live ones), the value returned, the bytes
\* asked for and the bitmap before the call.
FrameCall(op, index, returned, bytes, before) ==
    [op |-> op, index |-> index, returned |-> returned, bytes |-> bytes,
     before |-> before]

\* process.rs:62-65: the BTreeMap is kept as the set of its entries.
HandleTable(table, counter) == [table |-> table, counter |-> counter]

\* The entries of the ids id .. last of a BTreeMap<u32, Arc<Handle>>, all with
\* the same handle, kept as one value.
Entries(id, last, handle) == [id |-> id, last |-> last, handle |-> handle]

\* An entry of the BTreeMap<u32, Arc<Handle>>.
Entry(id, handle) == Entries(id, id, handle)

\* A call on a HandleTable: the function called, the id returned and the
\* handle passed (add_handle), or the id passed and the handle returned
\* (get_handle).
HandleCall(op, returned, handle) == [op |-> op, returned |-> returned, handle |-> handle]

\* The memory of a process: its mappings and its page tables.
PMem(space, tables) == [space |-> space, tables |-> tables]

\* process.rs:29-54: the fields of a ProcessStruct that the model follows.
ProcessStruct(state, counter, handles, name, memory, ioports) ==
    [pstate |-> state, pint_disable_counter |-> counter, phandles |-> handles,
     name |-> name, ioports |-> ioports, pmemory |-> memory]

\* ------------------------------------------------------ ProcessStateAtomic

\* process.rs:157-159: the value stored afterwards; the value returned is val.
compare_and_swap(val, expected, new) == IF val = expected THEN new ELSE val

\* ----------------------------------------------------------- machine words

\* paging::PAGE_SIZE: a page is 4 KiB.
PAGE_SIZE == 4096

\* Pages in the range of a usize: 2^32 / PAGE_SIZE on this 32-bit kernel.
NumPages == 1048576

usize_MAX == usize(NumPages - 1, PAGE_SIZE - 1)

\* n * PAGE_SIZE in usize arithmetic.
Pages(n) == usize(n % NumPages, 0)

\* a < b
Less(a, b) == a.page < b.page \/ (a.page = b.page /\ a.off < b.off)

\* a + b as a mathematical integer: its page is NumPages or more when the
\* sum does not fit a usize.
Sum(a, b) ==
    usize(a.page + b.page + ((a.off + b.off) \div PAGE_SIZE), (a.off + b.off) % PAGE_SIZE)

\* a - b, for b <= a.
Sub(a, b) ==
    IF a.off >= b.off
    THEN usize(a.page - b.page, a.off - b.off)
    ELSE usize(a.page - b.page - 1, a.off + PAGE_SIZE - b.off)

\* mapping.rs:8, utils::check_aligned(val, alignment): Ok when val is a
\* multiple of alignment (alignment divides PAGE_SIZE).
check_aligned(val, alignment) == val.off % alignment = 0

\* mapping.rs:8, utils::check_nonzero_length(length): Ok when length is not 0.
check_nonzero_length(length) == length # usize(0, 0)

\* mapping.rs:85, VirtualAddress::checked_add: the sum, or an error when it
\* does not fit a usize.
checked_add(address, n) ==
    LET sum == Sum(address, n) IN
    IF sum.page < NumPages THEN Ok(sum) ELSE Err("InvalidAddress")

\* mapping.rs:188, VirtualAddress + usize.
VirtualAddress_add(address, n) ==
    LET sum == Sum(address, n) IN usize(sum.page % NumPages, sum.off)

\* ----------------------------------------------------------------- Mapping

\* mapping.rs:83, frames.iter().flatten().count(): iterating a region yields
\* its frames.
RECURSIVE count(_)
count(frames) ==
    IF frames = << >> THEN 0 ELSE Head(frames).frames + count(Tail(frames))

\* mapping.rs:83, frames.iter().flatten(): the frame numbers of a frame
\* list, in order.
RECURSIVE flatten(_)
flatten(frames) ==
    IF frames = << >> THEN << >>
    ELSE [i \in 1 .. Head(frames).frames |-> Head(frames).address + i - 1]
            \o flatten(Tail(frames))

\* The words 0 and 1.
Zero == usize(0, 0)
One == usize(0, 1)

\* The KernelError values the calls on a Mapping return (specification 7).
InvalidAddress == Err("InvalidAddress")
SharedMapping == Err("SharedMapping")
InvalidMapping == Err("InvalidMapping")

\* mapping.rs:39,42,53: the kinds that hold no frames.
Available == MappingType("Available", << >>)
Guarded == MappingType("Guarded", << >>)
SystemReserved == MappingType("SystemReserved", << >>)


new_regular_empty(address, frames, flags) ==
    IF ~check_aligned(address, PAGE_SIZE) THEN InvalidAddress
    ELSE LET length == Pages(count(frames)) IN
         IF checked_add(address, Sub(length, One)).err # "none" THEN InvalidAddress
         ELSE Ok(Mapping(address, length, MappingType("Regular", frames), flags))

\* mapping.rs:81-87
new_regular(address, frames, flags) ==
    IF ~check_aligned(address, PAGE_SIZE) THEN InvalidAddress
    ELSE LET length == Pages(count(frames)) IN
         IF ~check_nonzero_length(length) THEN InvalidAddress
         ELSE IF checked_add(address, Sub(length, One)).err # "none" THEN InvalidAddress
         ELSE Ok(Mapping(address, length, MappingType("Regular", frames), flags))

new_shared_region_count(address, frames, flags) ==
    IF ~check_aligned(address, PAGE_SIZE) THEN InvalidAddress
    ELSE LET length == Pages(Len(frames)) IN
         IF ~check_nonzero_length(length) THEN InvalidAddress
         ELSE IF checked_add(address, Sub(length, One)).err # "none" THEN InvalidAddress
         ELSE Ok(Mapping(address, length, MappingType("Shared", frames), flags))

\* mapping.rs:96-102
new_shared(address, frames, flags) ==
    IF ~check_aligned(address, PAGE_SIZE) THEN InvalidAddress
    ELSE LET length == Pages(count(frames)) IN
         IF ~check_nonzero_length(length) THEN InvalidAddress
         ELSE IF checked_add(address, Sub(length, One)).err # "none" THEN InvalidAddress
         ELSE Ok(Mapping(address, length, MappingType("Shared", frames), flags))

new_guard_end_checked(address, length) ==
    IF ~check_aligned(address, PAGE_SIZE) THEN InvalidAddress
    ELSE IF ~check_aligned(length, PAGE_SIZE) THEN InvalidAddress
    ELSE IF ~check_nonzero_length(length) THEN InvalidAddress
    ELSE IF checked_add(address, length).err # "none" THEN InvalidAddress
    ELSE Ok(Mapping(address, length, Guarded, "empty"))

\* mapping.rs:111-117
new_guard(address, length) ==
    IF ~check_aligned(address, PAGE_SIZE) THEN InvalidAddress
    ELSE IF ~check_aligned(length, PAGE_SIZE) THEN InvalidAddress
    ELSE IF ~check_nonzero_length(length) THEN InvalidAddress
    ELSE IF checked_add(address, Sub(length, One)).err # "none" THEN InvalidAddress
    ELSE Ok(Mapping(address, length, Guarded, "empty"))

new_available_any_length(address, length) ==
    IF ~check_aligned(address, PAGE_SIZE) THEN InvalidAddress
    ELSE IF ~check_nonzero_length(length) THEN InvalidAddress
    ELSE IF checked_add(address, Sub(length, One)).err # "none" THEN InvalidAddress
    ELSE Ok(Mapping(address, length, Available, "empty"))

\* mapping.rs:126-132
new_available(address, length) ==
    IF ~check_aligned(address, PAGE_SIZE) THEN InvalidAddress
    ELSE IF ~check_aligned(length, PAGE_SIZE) THEN InvalidAddress
    ELSE IF ~check_nonzero_length(length) THEN InvalidAddress
    ELSE IF checked_add(address, Sub(length, One)).err # "none" THEN InvalidAddress
    ELSE Ok(Mapping(address, length, Available, "empty"))

new_system_reserved_unaligned(address, length) ==
    IF ~check_aligned(length, PAGE_SIZE) THEN InvalidAddress
    ELSE IF ~check_nonzero_length(length) THEN InvalidAddress
    ELSE IF checked_add(address, Sub(length, One)).err # "none" THEN InvalidAddress
    ELSE Ok(Mapping(address, length, SystemReserved, "empty"))

\* mapping.rs:141-147
new_system_reserved(address, length) ==
    IF ~check_aligned(address, PAGE_SIZE) THEN InvalidAddress
    ELSE IF ~check_aligned(length, PAGE_SIZE) THEN InvalidAddress
    ELSE IF ~check_nonzero_length(length) THEN InvalidAddress
    ELSE IF checked_add(address, Sub(length, One)).err # "none" THEN InvalidAddress
    ELSE Ok(Mapping(address, length, SystemReserved, "empty"))

\* Specification 4.2 (Splitting): Vec<PhysicalMemRegion>::split_at keeps the
\* first n frames on the left and moves the rest to the right, cutting the
\* region that straddles the boundary in two, so that each side owns exactly
\* its frames.
RECURSIVE Vec_split_at(_, _)
Vec_split_at(frames, n) ==
    IF frames = << >> THEN [left |-> << >>, right |-> << >>]
    ELSE IF n = 0 THEN [left |-> << >>, right |-> frames]
    ELSE LET h == Head(frames) IN
         IF h.frames <= n
         THEN LET r == Vec_split_at(Tail(frames), n - h.frames) IN
              [left |-> <<h>> \o r.left, right |-> r.right]
         ELSE [left |-> <<PhysicalMemRegion(h.address, n)>>,
               right |-> <<PhysicalMemRegion(h.address + n, h.frames - n)>> \o Tail(frames)]

split_halves_right_whole_length(self, offset) ==
    LET sp == Vec_split_at(self.mtype.frames, offset.page) IN
    [left |-> Mapping(self.address, offset, MappingType(self.mtype.kind, sp.left), self.flags),
     right |-> Mapping(VirtualAddress_add(self.address, offset),
                       self.length,
                       MappingType(self.mtype.kind, sp.right),
                       self.flags)]

split_halves_frames_cloned(self, offset) ==
    LET sp == Vec_split_at(self.mtype.frames, offset.page) IN
    [left |-> Mapping(self.address, offset, MappingType(self.mtype.kind, sp.left), self.flags),
     right |-> Mapping(VirtualAddress_add(self.address, offset),
                       Sub(self.length, offset),
                       MappingType(self.mtype.kind, self.mtype.frames),
                       self.flags)]

split_halves_left_unshortened(self, offset) ==
    LET sp == Vec_split_at(self.mtype.frames, offset.page) IN
    [left |-> Mapping(self.address, self.length, MappingType(self.mtype.kind, sp.left),
                      self.flags),
     right |-> Mapping(VirtualAddress_add(self.address, offset),
                       Sub(self.length, offset),
                       MappingType(self.mtype.kind, sp.right),
                       self.flags)]

\* mapping.rs:187-201 and 203: the right half and the left half of a split
\* that goes through (Available, Guarded or Regular).
split_halves(self, offset) ==
    LET sp == Vec_split_at(self.mtype.frames, offset.page) IN
    [left |-> Mapping(self.address, offset, MappingType(self.mtype.kind, sp.left), self.flags),
     right |-> Mapping(VirtualAddress_add(self.address, offset),
                       Sub(self.length, offset),
                       MappingType(self.mtype.kind, sp.right),
                       self.flags)]

split_at_shortens_before_failing(self, offset) ==
    IF ~check_aligned(offset, PAGE_SIZE)
    THEN [returned |-> InvalidAddress, self |-> self]
    ELSE IF offset = Zero \/ ~Less(offset, self.length)
    THEN [returned |-> OkNone, self |-> self]
    ELSE IF self.mtype.kind = "Shared"
    THEN [returned |-> SharedMapping, self |-> [self EXCEPT !.length = offset]]
    ELSE IF self.mtype.kind = "SystemReserved"
    THEN [returned |-> InvalidMapping, self |-> [self EXCEPT !.length = offset]]
    ELSE LET h == split_halves(self, offset) IN
         [returned |-> Ok(h.right), self |-> h.left]

split_at_shared_too(self, offset) ==
    IF ~check_aligned(offset, PAGE_SIZE)
    THEN [returned |-> InvalidAddress, self |-> self]
    ELSE IF offset = Zero \/ ~Less(offset, self.length)
    THEN [returned |-> OkNone, self |-> self]
    ELSE IF self.mtype.kind = "SystemReserved"
    THEN [returned |-> InvalidMapping, self |-> self]
    ELSE LET h == split_halves(self, offset) IN
         [returned |-> Ok(h.right), self |-> h.left]

split_at_past_the_end(self, offset) ==
    IF ~check_aligned(offset, PAGE_SIZE)
    THEN [returned |-> InvalidAddress, self |-> self]
    ELSE IF offset = Zero \/ Less(self.length, offset)
    THEN [returned |-> OkNone, self |-> self]
    ELSE IF self.mtype.kind = "Shared"
    THEN [returned |-> SharedMapping, self |-> self]
    ELSE IF self.mtype.kind = "SystemReserved"
    THEN [returned |-> InvalidMapping, self |-> self]
    ELSE LET h == split_halves(self, offset) IN
         [returned |-> Ok(h.right), self |-> h.left]

split_at_right_at_base(self, offset) ==
    IF ~check_aligned(offset, PAGE_SIZE)
    THEN [returned |-> InvalidAddress, self |-> self]
    ELSE IF offset = Zero \/ ~Less(offset, self.length)
    THEN [returned |-> OkNone, self |-> self]
    ELSE IF self.mtype.kind = "Shared"
    THEN [returned |-> SharedMapping, self |-> self]
    ELSE IF self.mtype.kind = "SystemReserved"
    THEN [returned |-> InvalidMapping, self |-> self]
    ELSE LET h == split_halves(self, offset) IN
         [returned |-> Ok([h.right EXCEPT !.address = self.address]), self |-> h.left]

\* mapping.rs:184-205: the value returned and the mapping as the call leaves
\* it.  Line 185 returns the error of check_aligned; line 186 returns
\* Ok(None); the match of lines 191-200 returns an error for Shared and
\* SystemReserved before anything is changed, and for Regular splits the
\* frame list in place (the unwrap of line 194 cannot fail: offset is
\* strictly inside the mapping, hence inside its frame list).
split_at(self, offset) ==
    IF ~check_aligned(offset, PAGE_SIZE)
    THEN [returned |-> InvalidAddress, self |-> self]
    ELSE IF offset = Zero \/ ~Less(offset, self.length)
    THEN [returned |-> OkNone, self |-> self]
    ELSE IF self.mtype.kind = "Shared"
    THEN [returned |-> SharedMapping, self |-> self]
    ELSE IF self.mtype.kind = "SystemReserved"
    THEN [returned |-> InvalidMapping, self |-> self]
    ELSE LET h == split_halves(self, offset) IN
         [returned |-> Ok(h.right), self |-> h.left]

\* No call on a Mapping has been made yet.
NoCall == Call(Zero, Zero, "empty", << >>, "none", 0, Zero, OkNone)

\* --------------------------------------------------------- frame allocator

\* Specification 7: no frame or no virtual range found.
OutOfMemory == Err("OutOfMemory")

\* Specification 3 (Frame bitmap): one bit per frame.
FrameNumbers == 0 .. MaxFrames

\* Specification 4.1, init: every usable frame is free and the reserved
\* regions are marked used; frame 0 stands for the reserved regions.
frame_allocator_init == [f \in FrameNumbers |-> f = 0]

\* The frame numbers of a PhysicalMemRegion.
region_frames(region) == region.address .. region.address + region.frames - 1

\* The maximal runs of free frames.
free_runs(bm) ==
    {r \in {PhysicalMemRegion(a, k) : a \in FrameNumbers, k \in 1 .. MaxFrames + 1} :
        /\ region_frames(r) \subseteq FrameNumbers
        /\ \A f \in region_frames(r) : ~bm[f]
        /\ (r.address - 1 \in FrameNumbers => bm[r.address - 1])
        /\ (r.address + r.frames \in FrameNumbers => bm[r.address + r.frames])}

\* Specification 4.1: chosen greedily, largest available run first (the
\* lowest of equally long runs).
largest_run(bm) ==
    LET runs == free_runs(bm) IN
    CHOOSE r \in runs :
        \A q \in runs :
            q.frames < r.frames \/ (q.frames = r.frames /\ q.address >= r.address)

mark(bm, region, used) ==
    [f \in FrameNumbers |-> IF f \in region_frames(region) THEN used ELSE bm[f]]

\* Specification 4.1, free(region): returns the frames to the pool.
free(bm, region) == mark(bm, region, FALSE)

\* Specification 3 (PhysicalMemRegion): dropping the owner of the regions
\* of a list returns their frames to the allocator.
RECURSIVE drop(_, _)
drop(bm, frames) ==
    IF frames = << >> THEN bm ELSE drop(free(bm, Head(frames)), Tail(frames))

\* The runs taken for need frames, largest run first, until need is met or
\* no frame is free, and the bitmap with them marked used.
RECURSIVE allocate_runs(_, _)
allocate_runs(bm, need) ==
    IF need = 0 \/ \A f \in FrameNumbers : bm[f] THEN [frames |-> << >>, self |-> bm]
    ELSE LET r == largest_run(bm)
             got == PhysicalMemRegion(r.address, IF need < r.frames THEN need ELSE r.frames)
             rest == allocate_runs(mark(bm, got, TRUE), need - got.frames)
         IN  [frames |-> <<got>> \o rest.frames, self |-> rest.self]

allocate_frames_fragmented_leaking(bm, bytes) ==
    IF ~check_aligned(bytes, PAGE_SIZE) THEN [returned |-> InvalidAddress, self |-> bm]
    ELSE LET got == allocate_runs(bm, bytes.page) IN
         IF count(got.frames) < bytes.page
         THEN [returned |-> OutOfMemory, self |-> got.self]
         ELSE [returned |-> Ok(got.frames), self |-> got.self]

\* Specification 4.1, allocate_frames_fragmented(bytes): bytes must be a
\* multiple of the page size; the runs taken sum to bytes; when the free
\* frames do not suffice the runs taken so far are dropped and the call
\* fails with OutOfMemory.
allocate_frames_fragmented(bm, bytes) ==
    IF ~check_aligned(bytes, PAGE_SIZE) THEN [returned |-> InvalidAddress, self |-> bm]
    ELSE LET got == allocate_runs(bm, bytes.page) IN
         IF count(got.frames) < bytes.page
         THEN [returned |-> OutOfMemory, self |-> drop(got.self, got.frames)]
         ELSE [returned |-> Ok(got.frames), self |-> got.self]

\* No call on the frame allocator has been made yet.
NoFrameCall == FrameCall("none", 0, OkNone, Zero, frame_allocator_init)

\* ----------------------------------------------------------- address space

\* Specification 6 (Address-space layout): UserLand is the low part of the
\* address space, KernelLand the rest, up to the last byte.
UserLand_start == Zero
KernelLand_start == Pages(UserPages)
KernelLand_length == usize(NumPages - UserPages, 0)

\* Specification 3 (Address space): one Available mapping over UserLand and
\* a single SystemReserved mapping over KernelLand.
empty_address_space ==
    new_available(UserLand_start, KernelLand_start).value
        \o new_system_reserved(KernelLand_start, KernelLand_length).value

\* A page-table entry: none, or the frame mapped and its flags.
NotPresent == << >>
empty_page_tables == [page \in 0 .. UserPages - 1 |-> NotPresent]

\* The last byte of a range, as a mathematical integer kept like a usize.
last_byte(address, length) == Sum(address, Sub(length, One))

\* The range starts at or after the start of m and ends at or before its end.
inside(m, address, length) ==
    /\ ~Less(address, m.address)
    /\ ~Less(last_byte(m.address, m.length), last_byte(address, length))

\* Specification 4.2, get_mapping_at: the index of the mapping that holds
\* address.
mapping_at(space, address) ==
    CHOOSE i \in 1 .. Len(space) : inside(space[i], address, One)

\* The entries of the pages of a mapping: its frames in order, with its
\* flags, for Regular and Shared, none for the other kinds.
install(tables, m) ==
    [page \in DOMAIN tables |->
        IF page >= m.address.page /\ page < m.address.page + m.length.page
        THEN IF m.mtype.kind \in {"Regular", "Shared"}
             THEN <<flatten(m.mtype.frames)[page - m.address.page + 1], m.flags>>
             ELSE NotPresent
        ELSE tables[page]]

\* The mapping space[i] is split at both ends of the mapping m, which lies
\* inside it, with Mapping::split_at, and the middle piece is replaced by m.
\* split_at works on the mapping in place, so a call that fails returns the
\* error with the list as the calls made so far left it.  value holds the
\* piece taken out.
replace_range(space, i, m) ==
    LET s1 == split_at(space[i], Sub(m.address, space[i].address))
        before == SubSeq(space, 1, i - 1)
        after == SubSeq(space, i + 1, Len(space))
    IN  IF s1.returned.err # "none"
        THEN [returned |-> Err(s1.returned.err), space |-> before \o <<s1.self>> \o after]
        ELSE LET left == IF s1.returned.value = << >> THEN << >> ELSE <<s1.self>>
                 rest == IF s1.returned.value = << >> THEN s1.self ELSE s1.returned.value[1]
                 s2 == split_at(rest, m.length)
             IN  IF s2.returned.err # "none"
                 THEN [returned |-> Err(s2.returned.err),
                       space |-> before \o left \o <<s2.self>> \o after]
                 ELSE [returned |-> Ok(s2.self),
                       space |-> before \o left \o <<m>> \o s2.returned.value \o after]

\* Specification 4.2: a mapping is installed in place of a part of one
\* Available mapping; the call fails when the range of m is not entirely
\* inside one Available mapping.
add_mapping(space, tables, bm, m) ==
    LET i == mapping_at(space, m.address) IN
    IF space[i].mtype.kind = "SystemReserved" THEN Outcome(InvalidMapping, bm, space, tables)
    ELSE IF space[i].mtype.kind # "Available" \/ ~inside(space[i], m.address, m.length)
    THEN Outcome(InvalidAddress, bm, space, tables)
    ELSE LET r == replace_range(space, i, m) IN
         IF r.returned.err # "none" THEN Outcome(r.returned, bm, r.space, tables)
         ELSE Outcome(OkNone, bm, r.space, install(tables, m))

\* Specification 3 (PhysicalMemRegion): the Shared mappings that own a
\* shared frame list.
holders(space, frames) ==
    {i \in 1 .. Len(space) : space[i].mtype = MappingType("Shared", frames)}

\* Specification 4.2, create_regular_mapping(addr, len, flags): allocates
\* fragmented frames of total size len and replaces part of an Available
\* mapping with a Regular one made of them; when the mapping cannot be
\* installed the frames allocated are dropped.
create_regular_mapping(space, tables, bm, address, length, flags) ==
    IF ~check_aligned(address, PAGE_SIZE) \/ ~check_aligned(length, PAGE_SIZE)
          \/ ~check_nonzero_length(length)
    THEN Outcome(InvalidAddress, bm, space, tables)
    ELSE LET a == allocate_frames_fragmented(bm, length) IN
         IF a.returned.err # "none" THEN Outcome(a.returned, a.self, space, tables)
         ELSE LET frames == a.returned.value[1]
                  m == new_regular(address, frames, flags)
              IN  IF m.err # "none" THEN Outcome(m, drop(a.self, frames), space, tables)
                  ELSE LET r == add_mapping(space, tables, a.self, m.value[1]) IN
                       IF r.returned.err # "none"
                       THEN Outcome(r.returned, drop(a.self, frames), r.space, r.tables)
                       ELSE r

\* Specification 4.2, map_shared(addr, frames, flags): the same, backed by
\* an already allocated shared list.
map_shared(space, tables, bm, address, frames, flags) ==
    LET m == new_shared(address, frames, flags) IN
    IF m.err # "none" THEN Outcome(m, bm, space, tables)
    ELSE add_mapping(space, tables, bm, m.value[1])

\* Specification 4.2, guard(addr, len): converts a sub-range of an
\* Available mapping into Guarded.
guard(space, tables, bm, address, length) ==
    LET m == new_guard(address, length) IN
    IF m.err # "none" THEN Outcome(m, bm, space, tables)
    ELSE add_mapping(space, tables, bm, m.value[1])

\* Specification 3 (Address space): adjacent Available mappings are merged.
RECURSIVE coalesce(_)
coalesce(space) ==
    IF Len(space) < 2 THEN space
    ELSE IF space[1].mtype.kind = "Available" /\ space[2].mtype.kind = "Available"
    THEN coalesce(new_available(space[1].address,
                                Sum(space[1].length, space[2].length)).value
                      \o SubSeq(space, 3, Len(space)))
    ELSE <<space[1]>> \o coalesce(Tail(space))

unmap_keeping_frames(space, tables, bm, address, length) ==
    LET hole == new_available(address, length) IN
    IF hole.err # "none" THEN Outcome(hole, bm, space, tables)
    ELSE LET i == mapping_at(space, address) IN
         IF space[i].mtype.kind = "SystemReserved"
         THEN Outcome(InvalidMapping, bm, space, tables)
         ELSE IF ~inside(space[i], address, length)
         THEN Outcome(InvalidAddress, bm, space, tables)
         ELSE LET r == replace_range(space, i, hole.value[1]) IN
              IF r.returned.err # "none" THEN Outcome(r.returned, bm, r.space, tables)
              ELSE Outcome(OkNone, bm, coalesce(r.space), install(tables, hole.value[1]))

\* Specification 4.2, unmap(addr, len): splits the covering mapping at both
\* ends, drops the middle, coalesces adjacent Available neighbours.  The
\* frames of a Regular middle are dropped with it, those of a Shared middle
\* when nothing else holds them.
unmap(space, tables, bm, address, length) ==
    LET hole == new_available(address, length) IN
    IF hole.err # "none" THEN Outcome(hole, bm, space, tables)
    ELSE LET i == mapping_at(space, address) IN
         IF space[i].mtype.kind = "SystemReserved"
         THEN Outcome(InvalidMapping, bm, space, tables)
         ELSE IF ~inside(space[i], address, length)
         THEN Outcome(InvalidAddress, bm, space, tables)
         ELSE LET r == replace_range(space, i, hole.value[1]) IN
              IF r.returned.err # "none" THEN Outcome(r.returned, bm, r.space, tables)
              ELSE LET middle == r.returned.value[1]
                       merged == coalesce(r.space)
                       freed == \/ middle.mtype.kind = "Regular"
                                \/ /\ middle.mtype.kind = "Shared"
                                   /\ holders(merged, middle.mtype.frames) = {}
                   IN  Outcome(OkNone,
                               IF freed THEN drop(bm, middle.mtype.frames) ELSE bm,
                               merged,
                               install(tables, hole.value[1]))

\* ------------------------------------------------------------- HandleTable

\* A u32 is kept like a usize, both being 32-bit words on this kernel.
\* process.rs:78: counter += 1, modulo 2^32.
u32_add_one(n) == VirtualAddress_add(n, One)

\* process.rs:68-73
HandleTable_new == HandleTable({}, One)

\* The entry of id is among those of e.
covers(e, id) == ~Less(id, e.id) /\ ~Less(e.last, id)

\* process.rs:79: self.table.contains_key(&handlenum)
contains_key(table, id) == \E e \in table : covers(e, id)

insert_one_id_per_handle(table, id, handle) ==
    {e \in table : e.handle # handle} \cup {Entry(id, handle)}

\* process.rs:80: self.table.insert(handlenum, handle) replaces the entry of
\* a key that is present.
insert(table, id, handle) ==
    {e \in table : ~covers(e, id)}
        \cup {Entries(e.id, Sub(id, One), e.handle) :
                  e \in {f \in table : covers(f, id) /\ Less(f.id, id)}}
        \cup {Entries(VirtualAddress_add(id, One), e.last, e.handle) :
                  e \in {f \in table : covers(f, id) /\ Less(id, f.last)}}
        \cup {Entry(id, handle)}

RECURSIVE add_handle_returns_counter(_, _)
add_handle_returns_counter(self, handle) ==
    LET handlenum == self.counter
        counter == u32_add_one(self.counter)
    IN  IF ~contains_key(self.table, handlenum)
        THEN [returned |-> counter,
              self |-> HandleTable(insert(self.table, handlenum, handle), counter)]
        ELSE add_handle_returns_counter(HandleTable(self.table, counter), handle)

\* process.rs:75-84: the id returned and the table as the call leaves it.
RECURSIVE add_handle(_, _)
add_handle(self, handle) ==
    LET handlenum == self.counter
        counter == u32_add_one(self.counter)
    IN  IF ~contains_key(self.table, handlenum)
        THEN [returned |-> handlenum,
              self |-> HandleTable(insert(self.table, handlenum, handle), counter)]
        ELSE add_handle(HandleTable(self.table, counter), handle)

\* process.rs:86-88: indexing the BTreeMap panics when the key is absent.
get_handle(self, handle) ==
    IF contains_key(self.table, handle)
    THEN Ok((CHOOSE e \in self.table : covers(e, handle)).handle)
    ELSE Err("panic")

\* No call on the HandleTable has been made yet.
NoHandleCall == HandleCall("none", Zero, "none")

\* ------------------------------------------------------------ constructors

\* process.rs:190-194: ProcessMemory; the Inactive variant is made with fresh
\* InactivePageTables.
ProcessMemory == {"Inactive", "Active"}

ProcessStruct_new_running(name, ioports) ==
    ProcessStruct("Running", 0, HandleTable_new, name, "Inactive", ioports)

ProcessStruct_new_active(name, ioports) ==
    ProcessStruct("NotReady", 0, HandleTable_new, name, "Active", ioports)

\* process.rs:198-228
ProcessStruct_new(name, ioports) ==
    ProcessStruct("NotReady", 0, HandleTable_new, name, "Inactive", ioports)

\* process.rs:240-268
create_first_process ==
    ProcessStruct("Running", 0, HandleTable_new, "init", "Active", << >>)

\* The processes of the scheduler's model are made like any other; their
\* names and I/O ports play no part there.
Constructed(p) ==
    IF p = InitProc THEN create_first_process ELSE ProcessStruct_new("", << >>)

InQueue(q, p) == \E i \in 1 .. Len(q) : q[i] = p

\* State once common_start has called scheduler::create_first_process
\* (kernel/src/main.rs:180) and the other processes have been constructed.
Init ==
    /\ pstate = [p \in Procs |-> Constructed(p).pstate]
    /\ pint_disable_counter = [p \in Procs |-> Constructed(p).pint_disable_counter]
    /\ frameWrites = [p \in Procs |-> 0]
    /\ starter = [c \in Starters |-> [pc |-> "idle", target |-> NoProc, result |-> "none"]]
    /\ killer = [k \in Killers |-> [pc |-> "idle", target |-> NoProc]]
    /\ queue = << >>
    /\ current = InitProc
    /\ tornDown = {}
    /\ interrupts = TRUE
    /\ savedIF = [p \in Procs |-> TRUE]
    /\ lockHolder = NoProc
    /\ waiters = << >>
    /\ upc = [p \in Procs |-> "run"]
    /\ mappings = << >>
    /\ ret = NoCall
    /\ bitmap = frame_allocator_init
    /\ live = << >>
    /\ fcall = NoFrameCall
    /\ address_space = empty_address_space
    /\ page_tables = empty_page_tables
    /\ mcall = NoCall
    /\ snapshot = << >>
    /\ phandles = HandleTable_new
    /\ hcall = NoHandleCall
    /\ module_tags = << >>
    /\ bootpc = "common_start"
    /\ module = 0
    /\ processes = << >>
    /\ events = << >>
    /\ logger_locked = FALSE
    /\ serial = << >>
    /\ INTERRUPT_DISARM = FALSE
    /\ panicked = << >>
    /\ ticks = 0
    /\ pmemlock = PMem(<< >>, << >>)
    /\ stackpc = "new"
    /\ stack = Zero
    /\ user_sp = Zero

\* ---------------------------------------------------- set_start_arguments

set_start_arguments_cas_weak(c, p) ==
    /\ starter[c].pc = "idle"
    /\ LET oldval == pstate[p] IN
        /\ pstate' = [pstate EXCEPT ![p] =
                IF oldval \in {"NotReady", "Readying"} THEN "Readying" ELSE oldval]
        /\ starter' = [starter EXCEPT ![c] =
                IF oldval \notin {"NotReady", "Readying"}
                THEN [pc |-> "done", target |-> p, result |-> "ProcessAlreadyStarted"]
                ELSE [pc |-> "prepare", target |-> p, result |-> "none"]]
    /\ UNCHANGED <<pint_disable_counter, frameWrites, killer>>
    /\ UNCHANGED <<schedVars, syncVars>>
    /\ UNCHANGED nonKernelVars

\* process.rs:279-283: the compare_and_swap and the early return.
set_start_arguments_cas(c, p) ==
    /\ starter[c].pc = "idle"
    /\ LET oldval == pstate[p] IN
        /\ pstate' = [pstate EXCEPT ![p] = compare_and_swap(oldval, "NotReady", "Readying")]
        /\ starter' = [starter EXCEPT ![c] =
                IF oldval # "NotReady"
                THEN [pc |-> "done", target |-> p, result |-> "ProcessAlreadyStarted"]
                ELSE [pc |-> "prepare", target |-> p, result |-> "none"]]
    /\ UNCHANGED <<pint_disable_counter, frameWrites, killer>>
    /\ UNCHANGED <<schedVars, syncVars>>
    /\ UNCHANGED nonKernelVars

\* process.rs:286-292: prepare_for_first_schedule writes the first-schedule
\* frame on the process's kernel stack.
set_start_arguments_prepare(c) ==
    /\ starter[c].pc = "prepare"
    /\ frameWrites' = [frameWrites EXCEPT ![starter[c].target] = @ + 1]
    /\ starter' = [starter EXCEPT ![c].pc = "store"]
    /\ UNCHANGED <<pstate, pint_disable_counter, killer>>
    /\ UNCHANGED <<schedVars, syncVars>>
    /\ UNCHANGED nonKernelVars

set_start_arguments_store_scheduled(c) ==
    /\ starter[c].pc = "store"
    /\ pstate' = [pstate EXCEPT ![starter[c].target] = "Scheduled"]
    /\ starter' = [starter EXCEPT ![c].pc = "done", ![c].result = "Ok"]
    /\ UNCHANGED <<pint_disable_counter, frameWrites, killer>>
    /\ UNCHANGED <<schedVars, syncVars>>
    /\ UNCHANGED nonKernelVars

\* process.rs:294-295: the unconditional store of Stopped, then Ok(()).
set_start_arguments_store(c) ==
    /\ starter[c].pc = "store"
    /\ pstate' = [pstate EXCEPT ![starter[c].target] = "Stopped"]
    /\ starter' = [starter EXCEPT ![c].pc = "done", ![c].result = "Ok"]
    /\ UNCHANGED <<pint_disable_counter, frameWrites, killer>>
    /\ UNCHANGED <<schedVars, syncVars>>
    /\ UNCHANGED nonKernelVars

\* ------------------------------------------------- add_to_schedule_queue

add_to_schedule_queue_unguarded(ps, q, cur, p) ==
    IF ps[p] \in {"Stopped", "Killed"}
    THEN [pstate |-> [ps EXCEPT ![p] = compare_and_swap(ps[p], "Stopped", "Scheduled")],
          queue |-> Append(q, p)]
    ELSE [pstate |-> ps, queue |-> q]

\* Specification 4.4: compare-and-swap Stopped -> Scheduled and enqueue on
\* success; a no-op when the process is already Scheduled or Running.  kill
\* (4.3) relies on it to enqueue a Killed process; the ready-queue invariant
\* (no process twice, Killed not re-queued) makes that enqueue conditional
\* on the process being neither queued nor in the running slot.
add_to_schedule_queue(ps, q, cur, p) ==
    IF ps[p] = "Stopped"
    THEN [pstate |-> [ps EXCEPT ![p] = compare_and_swap(ps[p], "Stopped", "Scheduled")],
          queue |-> Append(q, p)]
    ELSE IF ps[p] = "Killed" /\ ~InQueue(q, p) /\ cur # p
    THEN [pstate |-> ps, queue |-> Append(q, p)]
    ELSE [pstate |-> ps, queue |-> q]

\* ThreadStruct::start (kernel/src/main.rs:108) and any other direct caller.
AddToScheduleQueue(p) ==
    /\ LET r == add_to_schedule_queue(pstate, queue, current, p) IN
        /\ pstate' = r.pstate
        /\ queue' = r.queue
    /\ UNCHANGED <<pint_disable_counter, frameWrites, callVars>>
    /\ UNCHANGED <<current, tornDown, savedIF, syncVars>>
    /\ UNCHANGED nonKernelVars

\* ------------------------------------------------------------------- kill

\* process.rs:303: the unconditional store of Killed.
kill_store(k, p) ==
    /\ killer[k].pc = "idle"
    /\ pstate' = [pstate EXCEPT ![p] = "Killed"]
    /\ killer' = [killer EXCEPT ![k] = [pc |-> "enqueue", target |-> p]]
    /\ UNCHANGED <<pint_disable_counter, frameWrites, starter>>
    /\ UNCHANGED <<schedVars, syncVars>>
    /\ UNCHANGED nonKernelVars

kill_enqueue_skipped(k) ==
    /\ killer[k].pc = "enqueue"
    /\ killer' = [killer EXCEPT ![k].pc = "done"]
    /\ UNCHANGED <<pstate, pint_disable_counter, frameWrites, starter>>
    /\ UNCHANGED <<schedVars, syncVars>>
    /\ UNCHANGED nonKernelVars

\* process.rs:304: scheduler::add_to_schedule_queue(this).
kill_enqueue(k) ==
    /\ killer[k].pc = "enqueue"
    /\ LET r == add_to_schedule_queue(pstate, queue, current, killer[k].target) IN
        /\ pstate' = r.pstate
        /\ queue' = r.queue
    /\ killer' = [killer EXCEPT ![k].pc = "done"]
    /\ UNCHANGED <<pint_disable_counter, frameWrites, starter>>
    /\ UNCHANGED <<current, tornDown, savedIF, syncVars>>
    /\ UNCHANGED nonKernelVars

\* ------------------------------------------------------------- scheduler

\* Specification 4.4, dispatch loop: pop the head; with an empty queue the
\* CPU idles with interrupts enabled; a Killed head is torn down instead of
\* being run; any other head goes Scheduled -> Running and its saved
\* hardware context (interrupt flag included) is restored.
dispatch(ps, q, td, sif) ==
    IF q = << >>
    THEN [pstate |-> ps, queue |-> q, current |-> NoProc, tornDown |-> td,
          interrupts |-> TRUE, savedIF |-> sif]
    ELSE LET h == Head(q) IN
         IF ps[h] = "Killed"
         THEN [pstate |-> ps, queue |-> Tail(q), current |-> NoProc,
               tornDown |-> td \cup {h}, interrupts |-> TRUE, savedIF |-> sif]
         ELSE [pstate |-> [ps EXCEPT ![h] = compare_and_swap(ps[h], "Scheduled", "Running")],
               queue |-> Tail(q), current |-> h, tornDown |-> td,
               interrupts |-> sif[h], savedIF |-> sif]

\* Specification 4.4: the outgoing process goes Running -> Scheduled and to
\* the back of the queue before the switch, unless it is Stopped (in the
\* middle of unschedule: not re-queued) or Killed (not re-queued, torn down);
\* its register set is saved to its hardware context.
schedule(ps, q, cur, td, ifl, sif) ==
    dispatch([ps EXCEPT ![cur] = compare_and_swap(ps[cur], "Running", "Scheduled")],
             IF ps[cur] = "Running" THEN Append(q, cur) ELSE q,
             IF ps[cur] = "Killed" THEN td \cup {cur} ELSE td,
             [sif EXCEPT ![cur] = ifl])

ApplySwitch(r) ==
    /\ pstate' = r.pstate
    /\ queue' = r.queue
    /\ current' = r.current
    /\ tornDown' = r.tornDown
    /\ interrupts' = r.interrupts
    /\ savedIF' = r.savedIF

Yield_with_interrupts_masked ==
    /\ current # NoProc
    /\ ApplySwitch(schedule(pstate, queue, current, tornDown, interrupts, savedIF))
    /\ UNCHANGED <<pint_disable_counter, frameWrites, callVars>>
    /\ UNCHANGED <<lockHolder, waiters, upc>>
    /\ UNCHANGED nonKernelVars

\* Timer preemption (4.4): the tick handler yields; it runs only while
\* interrupts are enabled.
Yield ==
    /\ current # NoProc
    /\ interrupts
    /\ ApplySwitch(schedule(pstate, queue, current, tornDown, interrupts, savedIF))
    /\ UNCHANGED <<pint_disable_counter, frameWrites, callVars>>
    /\ UNCHANGED <<lockHolder, waiters, upc>>
    /\ UNCHANGED nonKernelVars

\* The idle loop of schedule(): a process arrived in the queue.
Dispatch ==
    /\ current = NoProc
    /\ queue # << >>
    /\ ApplySwitch(dispatch(pstate, queue, tornDown, savedIF))
    /\ UNCHANGED <<pint_disable_counter, frameWrites, callVars>>
    /\ UNCHANGED <<lockHolder, waiters, upc>>
    /\ UNCHANGED nonKernelVars

\* ------------------------------------------------------------ SpinLockIRQ

\* Specification 4.4 and process.rs:37-46: sync::disable_interrupts.
disable_interrupts(cnt, ifl) == [interrupts |-> FALSE, counter |-> cnt + 1]

enable_interrupts_always(cnt, ifl) == [interrupts |-> TRUE, counter |-> cnt - 1]

\* Specification 4.4 and process.rs:37-46: sync::enable_interrupts; only the
\* outermost release re-enables interrupts.
enable_interrupts(cnt, ifl) ==
    [interrupts |-> IF cnt - 1 = 0 THEN TRUE ELSE ifl, counter |-> cnt - 1]

\* The running process takes some other, uncontended SpinLockIRQ.
SpinLockIRQ_lock(p) ==
    /\ current = p
    /\ upc[p] = "run"
    /\ pint_disable_counter[p] < MaxNesting
    /\ LET r == disable_interrupts(pint_disable_counter[p], interrupts) IN
        /\ pint_disable_counter' = [pint_disable_counter EXCEPT ![p] = r.counter]
        /\ interrupts' = r.interrupts
    /\ UNCHANGED <<pstate, frameWrites, callVars, schedVars>>
    /\ UNCHANGED <<lockHolder, waiters, upc>>
    /\ UNCHANGED nonKernelVars

\* The running process drops the guard of such a lock.
SpinLockIRQ_unlock(p) ==
    /\ current = p
    /\ upc[p] = "run"
    /\ pint_disable_counter[p] > 0
    /\ LET r == enable_interrupts(pint_disable_counter[p], interrupts) IN
        /\ pint_disable_counter' = [pint_disable_counter EXCEPT ![p] = r.counter]
        /\ interrupts' = r.interrupts
    /\ UNCHANGED <<pstate, frameWrites, callVars, schedVars>>
    /\ UNCHANGED <<lockHolder, waiters, upc>>
    /\ UNCHANGED nonKernelVars

\* -------------------------------------------------------------- unschedule

InWaiters(p) == InQueue(waiters, p)

\* kernel/src/main.rs:115, lock.lock(): the running process acquires L
\* and, as a waiter does under L, is on the wait list from then on.
WaitLock(p) ==
    /\ current = p
    /\ upc[p] = "run"
    /\ lockHolder = NoProc
    /\ pint_disable_counter[p] < MaxNesting
    /\ LET r == disable_interrupts(pint_disable_counter[p], interrupts) IN
        /\ pint_disable_counter' = [pint_disable_counter EXCEPT ![p] = r.counter]
        /\ interrupts' = r.interrupts
    /\ lockHolder' = p
    /\ waiters' = IF InWaiters(p) THEN waiters ELSE Append(waiters, p)
    /\ upc' = [upc EXCEPT ![p] = "locked"]
    /\ UNCHANGED <<pstate, frameWrites, callVars, schedVars>>
    /\ UNCHANGED nonKernelVars

\* The store of Stopped: Running -> Stopped, a Killed process stays Killed.
unschedule_stop(p) ==
    /\ pstate' = [pstate EXCEPT ![p] = compare_and_swap(pstate[p], "Running", "Stopped")]
    /\ UNCHANGED <<pint_disable_counter, frameWrites, callVars, schedVars>>
    /\ UNCHANGED <<interrupts, lockHolder, waiters>>
    /\ UNCHANGED nonKernelVars

\* The release of the guard.
unschedule_release(p) ==
    /\ LET r == enable_interrupts(pint_disable_counter[p], interrupts) IN
        /\ pint_disable_counter' = [pint_disable_counter EXCEPT ![p] = r.counter]
        /\ interrupts' = r.interrupts
    /\ lockHolder' = NoProc
    /\ UNCHANGED <<pstate, frameWrites, callVars, schedVars, waiters>>
    /\ UNCHANGED nonKernelVars

\* The final schedule().
unschedule_switch(p) ==
    /\ ApplySwitch(schedule(pstate, queue, current, tornDown, interrupts, savedIF))
    /\ UNCHANGED <<pint_disable_counter, frameWrites, callVars>>
    /\ UNCHANGED <<lockHolder, waiters>>
    /\ UNCHANGED nonKernelVars

unschedule_release_first(p) ==
    /\ current = p
    /\ \/ upc[p] = "locked" /\ unschedule_release(p) /\ upc' = [upc EXCEPT ![p] = "stopping"]
       \/ upc[p] = "stopping" /\ unschedule_stop(p) /\ upc' = [upc EXCEPT ![p] = "released"]
       \/ upc[p] = "released" /\ unschedule_switch(p) /\ upc' = [upc EXCEPT ![p] = "run"]

\* Specification 4.4 and 9 (release-and-sleep atom), called at
\* kernel/src/main.rs:115 with the guard of L: mark the current process
\* Stopped, then release the guard, then enter schedule().
unschedule(p) ==
    /\ current = p
    /\ \/ upc[p] = "locked" /\ unschedule_stop(p) /\ upc' = [upc EXCEPT ![p] = "stopping"]
       \/ upc[p] = "stopping" /\ unschedule_release(p) /\ upc' = [upc EXCEPT ![p] = "released"]
       \/ upc[p] = "released" /\ unschedule_switch(p) /\ upc' = [upc EXCEPT ![p] = "run"]

\* ----------------------------------------------------------- event signal

RECURSIVE WakeAll(_, _, _, _)
WakeAll(ps, q, cur, ws) ==
    IF ws = << >>
    THEN [pstate |-> ps, queue |-> q]
    ELSE LET r == add_to_schedule_queue(ps, q, cur, Head(ws)) IN
         WakeAll(r.pstate, r.queue, cur, Tail(ws))

\* Specification 4.4 and 5: a signaller takes L, wakes every process on the
\* wait list with add_to_schedule_queue, and releases L.
Signal ==
    /\ lockHolder = NoProc
    /\ waiters # << >>
    /\ LET r == WakeAll(pstate, queue, current, waiters) IN
        /\ pstate' = r.pstate
        /\ queue' = r.queue
    /\ waiters' = << >>
    /\ UNCHANGED <<pint_disable_counter, frameWrites, callVars>>
    /\ UNCHANGED <<current, tornDown, savedIF, interrupts, lockHolder, upc>>
    /\ UNCHANGED nonKernelVars

\* ------------------------------------------------- calls on Mapping values

\* Addresses passed to the constructors: 0x40000000 and 0x40000007
\* (mapping.rs:236-251), usize::MAX - 2 * PAGE_SIZE (mapping.rs:377), and the
\* page-aligned addresses of the last pages of the address space, among them
\* usize::MAX - 2 * PAGE_SIZE + 1 (mapping.rs:256).
Addresses ==
    {usize(262144, 0), usize(262144, 7), usize(NumPages - 3, PAGE_SIZE - 1)}
    \cup {usize(NumPages - k, 0) : k \in 1 .. MaxPages}

\* Lengths and offsets: 0, unaligned ones (mapping.rs:241,251), whole pages.
Lengths == {Zero, usize(0, 3)} \cup {Pages(k) : k \in 1 .. MaxPages}

Offsets == {Zero, usize(0, 3), usize(1, 3)} \cup {Pages(k) : k \in 1 .. MaxPages}

\* Frame lists: the empty list, lists of zero-sized regions
\* (mapping.rs:289,305-316) and lists of regions of one frame or more.
FrameLists ==
    UNION {{[i \in 1 .. n |-> PhysicalMemRegion(16 * i, f[i])] :
                f \in [1 .. n -> 0 .. MaxRegionFrames]} : n \in 0 .. MaxRegions}

\* mapping.rs:116,274: MappingFlags::empty() and MappingFlags::u_rw().
Flags == {"empty", "u_rw"}

\* The call is recorded with the Result it returned; a Mapping returned in
\* Ok exists from then on.  Mapping values share no state, so one
\* constructed Mapping and the pieces split from it are followed at a time.
Constructed_by(op, address, length, frames, flags, returned) ==
    /\ mappings = << >>
    /\ ret' = Call(address, length, flags, frames, op, 0, Zero, returned)
    /\ mappings' = mappings \o returned.value
    /\ UNCHANGED nonMapVars

NewRegular ==
    \E address \in Addresses, frames \in FrameLists, flags \in Flags :
        Constructed_by("new_regular", address, Zero, frames, flags,
                       new_regular(address, frames, flags))

NewShared ==
    \E address \in Addresses, frames \in FrameLists, flags \in Flags :
        Constructed_by("new_shared", address, Zero, frames, flags,
                       new_shared(address, frames, flags))

NewGuard ==
    \E address \in Addresses, length \in Lengths :
        Constructed_by("new_guard", address, length, << >>, "empty",
                       new_guard(address, length))

NewAvailable ==
    \E address \in Addresses, length \in Lengths :
        Constructed_by("new_available", address, length, << >>, "empty",
                       new_available(address, length))

NewSystemReserved ==
    \E address \in Addresses, length \in Lengths :
        Constructed_by("new_system_reserved", address, length, << >>, "empty",
                       new_system_reserved(address, length))

\* mapping.rs:184-205 on the i-th Mapping: it is left as split_at leaves it
\* and the right half, when one is returned, exists from then on.
SplitAt ==
    \E i \in 1 .. Len(mappings), offset \in Offsets :
        /\ Len(mappings) < MaxMappings
        /\ LET r == split_at(mappings[i], offset) IN
            /\ mappings' = [mappings EXCEPT ![i] = r.self] \o r.returned.value
            /\ ret' = Call(Zero, Zero, "empty", << >>, "split_at", i, offset, r.returned)
        /\ UNCHANGED nonMapVars

MemoryType_from_guarded_unmapped(ty) ==
    CASE ty.kind = "Available" -> "Unmapped"
      [] ty.kind = "Guarded" -> "Unmapped"
      [] ty.kind = "Regular" -> "Normal"
      [] ty.kind = "Shared" -> "SharedMemory"
      [] ty.kind = "SystemReserved" -> "Reserved"

\* mapping.rs:56-71: From<&MappingType> for kfs_libkern::MemoryType.
MemoryType_from(ty) ==
    CASE ty.kind = "Available" -> "Unmapped"
      [] ty.kind = "Guarded" -> "Reserved"
      [] ty.kind = "Regular" -> "Normal"
      [] ty.kind = "Shared" -> "SharedMemory"
      [] ty.kind = "SystemReserved" -> "Reserved"

\* mapping.rs:56-71 on the type of the i-th Mapping, which is only read.
MemoryTypeFrom ==
    \E i \in 1 .. Len(mappings) :
        /\ ret' = Call(Zero, Zero, "empty", << >>, "MemoryType::from", i, Zero,
                       Ok(MemoryType_from(mappings[i].mtype)))
        /\ mappings' = mappings
        /\ UNCHANGED nonMapVars

\* ------------------------------------------- calls on the frame allocator

\* Sizes asked for: 0, sizes that are not a multiple of the page size, and
\* whole pages up to more than the allocator has.
Requests == {Zero, usize(0, 3), usize(1, 3)} \cup {Pages(k) : k \in 1 .. MaxFrames + 1}

\* The list without its i-th element.
Remove(list, i) == SubSeq(list, 1, i - 1) \o SubSeq(list, i + 1, Len(list))

\* allocate_frames_fragmented(bytes): the caller holds the list returned.
AllocateFramesFragmented ==
    \E bytes \in Requests :
        /\ Len(live) < MaxLive
        /\ LET r == allocate_frames_fragmented(bitmap, bytes) IN
            /\ bitmap' = r.self
            /\ live' = live \o r.returned.value
            /\ fcall' = FrameCall("allocate_frames_fragmented", 0, r.returned, bytes, bitmap)
        /\ UNCHANGED nonFrameVars

\* The caller drops the i-th list it holds.
DropFrames ==
    \E i \in 1 .. Len(live) :
        /\ bitmap' = drop(bitmap, live[i])
        /\ live' = Remove(live, i)
        /\ fcall' = FrameCall("drop", i, OkNone, Zero, bitmap)
        /\ UNCHANGED nonFrameVars

\* ------------------------------------------------ calls on an address space

\* The Shared mappings of the address space.
holders_of_any == {i \in 1 .. Len(address_space) : address_space[i].mtype.kind = "Shared"}

\* The bitmap with the frames of a list marked used.
RECURSIVE allocated(_, _)
allocated(bm, frames) ==
    IF frames = << >> THEN bm ELSE allocated(mark(bm, Head(frames), TRUE), Tail(frames))

\* Addresses passed: the pages of UserLand, the first page of KernelLand
\* and an address that is not page-aligned.
MemAddresses == {Pages(k) : k \in 0 .. UserPages} \cup {usize(0, 7)}

\* Lengths passed: 0, a length that is not page-aligned, whole pages.
MemLengths == {Zero, usize(0, 3)} \cup {Pages(k) : k \in 1 .. UserPages}

\* The call is recorded with the value it returned; the address space, the
\* page tables and the bitmap of before the call are kept after a call that
\* installed a mapping, and after an unmap of the range that the call before
\* it had just mapped or guarded, the name of that call.
Called(op, address, length, frames, r, bm) ==
    /\ address_space' = r.space
    /\ page_tables' = r.tables
    /\ bitmap' = bm
    /\ mcall' = IF r.returned.err = "none"
                THEN Call(address, length, "empty", frames, op, 0, Zero, r.returned)
                ELSE Call(Zero, Zero, "empty", << >>, op, 0, Zero, r.returned)
    /\ snapshot' = IF r.returned.err = "none" /\ op # "unmap"
                   THEN <<address_space, page_tables, bitmap>>
                   ELSE IF /\ r.returned.err = "none"
                           /\ mcall.op \in {"create_regular_mapping", "guard"}
                           /\ mcall.returned.err = "none"
                           /\ mcall.address = address
                           /\ mcall.length = length
                   THEN <<mcall.op>>
                   ELSE << >>
    /\ UNCHANGED <<live, fcall>>
    /\ UNCHANGED nonMemVars

\* kernel/src/main.rs:102: create_regular_mapping(addr, len, u_rw).
CreateRegularMapping ==
    \E address \in MemAddresses, length \in MemLengths :
        \E r \in {create_regular_mapping(address_space, page_tables, bitmap,
                                          address, length, "u_rw")} :
            Called("create_regular_mapping", address, length, << >>, r, r.self)

\* The frame lists that can be mapped shared: those of the Shared mappings
\* there are, and a list of one frame or more allocated for the call.
SharedLists ==
    {address_space[i].mtype.frames : i \in holders_of_any}
        \cup {v[1] : v \in {allocate_frames_fragmented(bitmap, Pages(k)).returned.value :
                                k \in 1 .. UserPages} \ {<< >>}}

\* map_shared(addr, frames, u_rw) by a caller that drops its own reference
\* to the list after the call: the frames are in use from the allocation
\* on, and go back to the allocator when no Shared mapping holds the list.
MapShared ==
    \E address \in MemAddresses, frames \in SharedLists :
        \E r \in {map_shared(address_space, page_tables, allocated(bitmap, frames),
                              address, frames, "u_rw")} :
            Called("map_shared", address, Zero, frames, r,
                       IF holders(r.space, frames) = {} THEN drop(r.self, frames) ELSE r.self)

\* kernel/src/main.rs:101: guard(addr, len).
Guard ==
    \E address \in MemAddresses, length \in MemLengths :
        \E r \in {guard(address_space, page_tables, bitmap, address, length)} :
            Called("guard", address, length, << >>, r, r.self)

Unmap ==
    \E address \in MemAddresses, length \in MemLengths :
        \E r \in {unmap(address_space, page_tables, bitmap, address, length)} :
            Called("unmap", address, length, << >>, r, r.self)

\* -------------------------------------------------- calls on a HandleTable

\* process.rs:76-82: the loop of add_handle ends when one of the ids it
\* probes is vacant; calls that probe more than MaxProbes ids are left out,
\* and on a table that holds every id the loop does not end.
returns(self) ==
    \E k \in 0 .. MaxProbes - 1 :
        ~contains_key(self.table, VirtualAddress_add(self.counter, usize(0, k)))

\* process.rs:57-59: the handles passed, two events.
Handles == {"event1", "event2"}

\* process.rs:75-84
AddHandle ==
    \E handle \in Handles :
        /\ Cardinality(phandles.table) < MaxHandles
        /\ hcall.handle # "panic"
        /\ returns(phandles)
        /\ LET r == add_handle(phandles, handle) IN
            /\ phandles' = r.self
            /\ hcall' = HandleCall("add_handle", r.returned, handle)
        /\ UNCHANGED nonHandleVars

\* How many calls a caller makes in a row with the same handle: a few, or
\* all but the last two ids of a u32.
Runs == {usize(0, 3), usize(NumPages - 1, PAGE_SIZE - 3)}

\* process.rs:75-84, n times in a row with the same handle on a table that
\* has none of the ids counter .. counter + n - 2 and whose counter does not
\* wrap before the last call: each call but the last finds its id vacant at
\* once, inserts under it and increments the counter.
AddHandleRepeatedly ==
    \E handle \in Handles, n \in Runs :
        /\ Cardinality(phandles.table) < MaxHandles
        /\ hcall.handle # "panic"
        /\ Sum(phandles.counter, Sub(n, One)).page < NumPages
        /\ LET first == phandles.counter
               last == VirtualAddress_add(first, Sub(n, usize(0, 2)))
               self == HandleTable(phandles.table \cup {Entries(first, last, handle)},
                                   u32_add_one(last))
           IN  /\ \A e \in phandles.table : Less(e.last, first) \/ Less(last, e.id)
               /\ returns(self)
               /\ \E r \in {add_handle(self, handle)} :
                      /\ phandles' = r.self
                      /\ hcall' = HandleCall("add_handle", r.returned, handle)
        /\ UNCHANGED nonHandleVars

\* The ids asked for: 0, the ids of MaxHandles entries and one more, and the
\* last id of a u32.
HandleIds == {usize(0, k) : k \in 0 .. MaxHandles + 1} \cup {usize_MAX}

\* process.rs:86-88; a panic halts the kernel, no call follows it.
GetHandle ==
    \E id \in HandleIds :
        /\ hcall.handle # "panic"
        /\ LET r == get_handle(phandles, id) IN
            hcall' = HandleCall("get_handle", id,
                                IF r.err = "none" THEN r.value[1] ELSE r.err)
        /\ phandles' = phandles
        /\ UNCHANGED nonHandleVars

\* ------------------------------------------------------------------- boot

\* Names a module tag can carry.
ModuleNames == {"a", "b"}

\* The module tags a boot loader can hand over: none at all, or the kernel's
\* own ELF followed by up to MaxModules others, names repeated or not.
BootModules ==
    {<< >>} \cup
    UNION {{<<"kernel">> \o s : s \in [1 .. n -> ModuleNames]} : n \in 0 .. MaxModules}

init_modules_all(tags) == tags

\* kernel/src/main.rs:90: module_tags().skip(1), the modules main loads.
init_modules(tags) == SubSeq(tags, 2, Len(tags))

\* What happened to a module: the call made and the module's name.
Event(call, name) == <<call, name>>

\* kernel/src/main.rs:141-174: common_start parses the boot information and
\* brings the machine up; interrupts are enabled when it is done.
CommonStart ==
    /\ bootpc = "common_start"
    /\ \E tags \in BootModules : module_tags' = tags
    /\ bootpc' = "create_first_process"
    /\ UNCHANGED <<module, processes, events, panicVars, ticks>>
    /\ UNCHANGED <<interrupts, nonBootVars>>

\* kernel/src/main.rs:180-184: the boot CPU becomes the first process and
\* calls main.
CreateFirstProcess ==
    /\ bootpc = "create_first_process"
    /\ processes' = Append(processes, create_first_process)
    /\ bootpc' = "main"
    /\ UNCHANGED <<module_tags, module, events, panicVars, ticks>>
    /\ UNCHANGED <<interrupts, nonBootVars>>

\* kernel/src/main.rs:90-91 and 112-116: the for loop takes the next module,
\* or main goes to its idle loop when there is none left.
NextModule ==
    /\ bootpc = "main"
    /\ IF module < Len(init_modules(module_tags))
       THEN module' = module + 1 /\ bootpc' = "new"
       ELSE module' = module /\ bootpc' = "idle"
    /\ UNCHANGED <<module_tags, processes, events, panicVars, ticks>>
    /\ UNCHANGED <<interrupts, nonBootVars>>

\* The module the loop is handling.
this_module == init_modules(module_tags)[module]

\* kernel/src/main.rs:92-93: the module is mapped and its process made.
NewProcess ==
    /\ bootpc = "new"
    /\ processes' = Append(processes, ProcessStruct_new(this_module, << >>))
    /\ events' = Append(events, Event("ProcessStruct::new", this_module))
    /\ bootpc' = "stack"
    /\ UNCHANGED <<module_tags, module, panicVars, ticks>>
    /\ UNCHANGED <<interrupts, nonBootVars>>

\* kernel/src/main.rs:94-105: the ELF is loaded and the stack mapped behind
\* its guard page.
LoadModule ==
    /\ bootpc = "stack"
    /\ bootpc' = "thread"
    /\ UNCHANGED <<module_tags, module, processes, events, panicVars, ticks>>
    /\ UNCHANGED <<interrupts, nonBootVars>>

\* kernel/src/main.rs:106-107: ThreadStruct::new; the process takes its start
\* arguments and goes from NotReady to Stopped (specification 4.3).
NewThread ==
    /\ bootpc = "thread"
    /\ LET i == Len(processes)
           readying == compare_and_swap(processes[i].pstate, "NotReady", "Readying")
       IN /\ readying = "Readying"
          /\ processes' = [processes EXCEPT ![i].pstate = "Stopped"]
    /\ events' = Append(events, Event("ThreadStruct::new", this_module))
    /\ bootpc' = "start"
    /\ UNCHANGED <<module_tags, module, panicVars, ticks>>
    /\ UNCHANGED <<interrupts, nonBootVars>>

\* kernel/src/main.rs:108-109: ThreadStruct::start; the process goes from
\* Stopped to Scheduled (specification 4.3), and the loop comes round.
StartThread ==
    /\ bootpc = "start"
    /\ LET i == Len(processes)
           scheduled == compare_and_swap(processes[i].pstate, "Stopped", "Scheduled")
       IN /\ scheduled = "Scheduled"
          /\ processes' = [processes EXCEPT ![i].pstate = scheduled]
    /\ events' = Append(events, Event("ThreadStruct::start", this_module))
    /\ bootpc' = "main"
    /\ UNCHANGED <<module_tags, module, panicVars, ticks>>
    /\ UNCHANGED <<interrupts, nonBootVars>>

\* The timer interrupt, taken whenever the CPU accepts interrupts.
Tick ==
    /\ bootpc \notin {"common_start", "halted"}
    /\ interrupts
    /\ ticks < MaxTicks
    /\ ticks' = ticks + 1
    /\ UNCHANGED <<mainVars, panicVars>>
    /\ UNCHANGED <<interrupts, nonBootVars>>

\* ------------------------------------------------------------------ panic

\* kernel/src/main.rs:258-261 and the expect and unwrap calls of main
\* (process.rs:205-206, kernel/src/main.rs:100-109): a step of main panics.
\* The panic can come from within a logging call, the logger's lock held.
PanicFmt ==
    /\ bootpc \in {"new", "stack", "thread", "start"}
    /\ bootpc' = "panic"
    /\ \E held \in BOOLEAN : logger_locked' = held
    /\ UNCHANGED <<module_tags, module, processes, events>>
    /\ UNCHANGED <<serial, INTERRUPT_DISARM, panicked, ticks>>
    /\ UNCHANGED <<interrupts, nonBootVars>>

do_panic_unlock_first ==
    <<"force_unlock", "permanently_disable_interrupts", "panic_message",
      "get_symbols", "dump_stack", "current_thread", "end_panic", "hlt">>

\* kernel/src/main.rs:198-254: the statements of do_panic, in order.
do_panic ==
    <<"permanently_disable_interrupts", "force_unlock", "panic_message",
      "get_symbols", "dump_stack", "current_thread", "end_panic", "hlt">>

\* The statements of do_panic that write a line to the SerialLogger.
writes == {"panic_message", "dump_stack", "current_thread", "end_panic"}

\* Specification 7: once interrupts are disabled permanently, releasing a
\* SpinLockIRQ no longer enables them.
enable_interrupts_unless_disarmed(cnt, ifl, disarm) ==
    LET r == enable_interrupts(cnt, ifl)
    IN  IF disarm THEN [interrupts |-> ifl, counter |-> r.counter] ELSE r

\* kernel/src/main.rs:223-225 and specification 5: mapping the kernel's ELF
\* takes and releases the SpinLockIRQ of the kernel mappings.
map_grub_module(cnt, ifl, disarm) ==
    LET locked == disable_interrupts(cnt, ifl)
    IN  enable_interrupts_unless_disarmed(locked.counter, locked.interrupts, disarm)

\* One statement of do_panic. A writeln on the SerialLogger takes the
\* logger's lock, and waits for as long as it is held.
PanicStep ==
    /\ bootpc = "panic"
    /\ Len(panicked) < Len(do_panic)
    /\ LET statement == do_panic[Len(panicked) + 1] IN
        /\ statement \in writes => ~logger_locked
        /\ panicked' = Append(panicked, statement)
        /\ INTERRUPT_DISARM' =
               (INTERRUPT_DISARM \/ statement = "permanently_disable_interrupts")
        /\ logger_locked' = (logger_locked /\ statement # "force_unlock")
        /\ interrupts' =
               CASE statement = "permanently_disable_interrupts" -> FALSE
                 [] statement = "get_symbols" ->
                        map_grub_module(pint_disable_counter[InitProc], interrupts,
                                        INTERRUPT_DISARM).interrupts
                 [] OTHER -> interrupts
        /\ \/ /\ statement \in writes
              /\ serial' = Append(serial, statement)
           \/ /\ statement = "get_symbols"
              /\ \E found \in BOOLEAN :
                    serial' = IF found /\ module_tags # << >>
                              THEN serial
                              ELSE Append(serial, "no_symbols")
           \/ /\ statement \notin writes \cup {"get_symbols"}
              /\ serial' = serial
        /\ bootpc' = IF statement = "hlt" THEN "halted" ELSE bootpc
    /\ UNCHANGED <<module_tags, module, processes, events, ticks>>
    /\ UNCHANGED nonBootVars

\* ------------------------------------------------------- the user stack

\* Specification 3 and 6: the address space of a new process, one Available
\* mapping over its UserLand and a SystemReserved one over KernelLand, and
\* page tables with no entry.
InactivePageTables_new ==
    PMem(new_available(UserLand_start, Pages(ProcessPages)).value
             \o new_system_reserved(Pages(ProcessPages),
                                    usize(NumPages - ProcessPages, 0)).value,
         [page \in 0 .. ProcessPages - 1 |-> NotPresent])

\* Specification 4.2, find_available_space(len): first fit, the address of
\* the first Available mapping of length len or more, OutOfMemory when
\* there is none.
find_available_space(space, length) ==
    LET fits == {i \in 1 .. Len(space) :
                    /\ space[i].mtype.kind = "Available"
                    /\ ~Less(space[i].length, length)}
    IN  IF fits = {} THEN OutOfMemory
        ELSE Ok(space[CHOOSE i \in fits : \A j \in fits : i <= j].address)

stack_pointer_above_guard(address) == VirtualAddress_add(address, Pages(1))

\* kernel/src/main.rs:104: stack + 5 * PAGE_SIZE.
stack_pointer(address) == VirtualAddress_add(address, Pages(5))

\* The segments a module can have: none, or one of up to MaxSegmentPages
\* pages at a page of UserLand.
Segments ==
    {<<Zero, Zero>>} \cup
    {<<Pages(a), Pages(n)>> : a \in 0 .. ProcessPages - 1, n \in 1 .. MaxSegmentPages}

\* The frame allocator's bitmap after the call, and nothing else of it.
Allocated(bm) == bitmap' = bm /\ UNCHANGED <<live, fcall>>

\* The variables a step of the loading leaves alone.
nonStackVars == <<kernelVars, mapVars, memVars, handleVars, bootVars>>

\* process.rs:202 and kernel/src/main.rs:93-95: the process of the next
\* module has a memory of its own; the frame allocator is the same.
NewProcessMemory ==
    /\ stackpc \in {"new", "done"}
    /\ pmemlock' = InactivePageTables_new
    /\ stackpc' = "load"
    /\ stack' = Zero
    /\ user_sp' = Zero
    /\ Allocated(bitmap)
    /\ UNCHANGED nonStackVars

\* The create_regular_mapping call of the step the loading is at:
\* load_builtin's for the module's segment (kernel/src/main.rs:97), main's
\* for the four pages of the stack (kernel/src/main.rs:102).
MappingRequests ==
    IF stackpc = "create"
    THEN {<<VirtualAddress_add(stack, Pages(1)), Pages(4)>>}
    ELSE Segments

\* kernel/src/main.rs:97: load_builtin maps the module's segment, if it has
\* one, as a Regular mapping; main panics when it cannot.  r is the outcome
\* of the call for the segment.
LoadBuiltin(segment, r) ==
    /\ stackpc = "load"
    /\ IF segment[2] = Zero
       THEN /\ stackpc' = "find"
            /\ pmemlock' = pmemlock
            /\ Allocated(bitmap)
       ELSE /\ stackpc' = IF r.returned.err = "none" THEN "find" ELSE "panic"
            /\ pmemlock' = PMem(r.space, r.tables)
            /\ Allocated(r.self)
    /\ UNCHANGED <<stack, user_sp>>
    /\ UNCHANGED nonStackVars

\* kernel/src/main.rs:99-100: find_available_space(5 * PAGE_SIZE).expect(..).
FindAvailableSpace ==
    /\ stackpc = "find"
    /\ LET found == find_available_space(pmemlock.space, Pages(5)) IN
        /\ stackpc' = IF found.err = "none" THEN "guard" ELSE "panic"
        /\ stack' = IF found.err = "none" THEN found.value[1] ELSE stack
    /\ UNCHANGED <<pmemlock, user_sp>>
    /\ Allocated(bitmap)
    /\ UNCHANGED nonStackVars

\* kernel/src/main.rs:101: guard(stack, PAGE_SIZE).unwrap().
GuardStack ==
    /\ stackpc = "guard"
    /\ \E r \in {guard(pmemlock.space, pmemlock.tables, bitmap, stack, Pages(1))} :
          /\ stackpc' = IF r.returned.err = "none" THEN "create" ELSE "panic"
          /\ pmemlock' = PMem(r.space, r.tables)
          /\ Allocated(r.self)
    /\ UNCHANGED <<stack, user_sp>>
    /\ UNCHANGED nonStackVars

\* kernel/src/main.rs:102-104: create_regular_mapping(stack + PAGE_SIZE,
\* 4 * PAGE_SIZE, MappingFlags::u_rw()).unwrap(), and the stack pointer.  r
\* is the outcome of the call.
CreateStack(r) ==
    /\ stackpc = "create"
    /\ stackpc' = IF r.returned.err = "none" THEN "done" ELSE "nostack"
    /\ pmemlock' = PMem(r.space, r.tables)
    /\ Allocated(r.self)
    /\ user_sp' = IF r.returned.err = "none" THEN stack_pointer(stack) ELSE user_sp
    /\ stack' = stack
    /\ UNCHANGED nonStackVars

\* The step of the loading that calls create_regular_mapping.
MapUserPages ==
    /\ stackpc \in {"load", "create"}
    /\ \E request \in MappingRequests :
        \E r \in {create_regular_mapping(pmemlock.space, pmemlock.tables, bitmap,
                                          request[1], request[2], "u_rw")} :
            \/ LoadBuiltin(request, r)
            \/ CreateStack(r)

\* kernel/src/main.rs:102: the unwrap of a failed create_regular_mapping
\* panics.
StackUnwrapPanics ==
    /\ stackpc = "nostack"
    /\ stackpc' = "panic"
    /\ UNCHANGED <<pmemlock, stack, user_sp>>
    /\ Allocated(bitmap)
    /\ UNCHANGED nonStackVars

\* ------------------------------------------------------------ specification

Next ==
    \/ \E c \in Starters, p \in Procs : set_start_arguments_cas(c, p)
    \/ \E c \in Starters : set_start_arguments_prepare(c)
    \/ \E c \in Starters : set_start_arguments_store(c)
    \/ \E k \in Killers, p \in Procs : kill_store(k, p)
    \/ \E k \in Killers : kill_enqueue(k)
    \/ \E p \in Procs : AddToScheduleQueue(p)
    \/ Yield
    \/ Dispatch
    \/ \E p \in Procs : WaitLock(p)
    \/ \E p \in Procs : unschedule(p)
    \/ Signal

\* Every interleaving of the operations on processes, the ready queue and
\* the lock L.
Spec == Init /\ [][Next]_vars

NextIRQ ==
    \/ Next
    \/ \E p \in Procs : SpinLockIRQ_lock(p)
    \/ \E p \in Procs : SpinLockIRQ_unlock(p)

\* The same, with the running process also taking and dropping other
\* SpinLockIRQs, nested up to MaxNesting deep.
SpecIRQ == Init /\ [][NextIRQ]_vars

NextMap ==
    \/ NewRegular
    \/ NewShared
    \/ NewGuard
    \/ NewAvailable
    \/ NewSystemReserved
    \/ SplitAt

\* Every sequence of constructor calls and splits on Mapping values.
SpecMap == Init /\ [][NextMap]_vars

NextFrames ==
    \/ AllocateFramesFragmented
    \/ DropFrames

\* Every sequence of allocations and drops of frame lists.
SpecFrames == Init /\ [][NextFrames]_vars

NextMem ==
    \/ CreateRegularMapping
    \/ MapShared
    \/ Guard
    \/ Unmap

\* Every sequence of calls on one address space, with the frame allocator
\* behind it.
SpecMem == Init /\ [][NextMem]_vars

NextHandles ==
    \/ AddHandle
    \/ GetHandle

\* Every sequence of calls on one HandleTable.
SpecHandles == Init /\ [][NextHandles]_vars

NextBoot ==
    \/ CommonStart
    \/ CreateFirstProcess
    \/ NextModule
    \/ NewProcess
    \/ LoadModule
    \/ NewThread
    \/ StartThread
    \/ Tick
    \/ PanicFmt
    \/ PanicStep

SpecBoot == Init /\ [][NextBoot]_vars

NextQuery ==
    \/ NextMap
    \/ MemoryTypeFrom

\* The same, with the memory type of the Mapping values queried.
SpecQuery == Init /\ [][NextQuery]_vars

NextWrap ==
    \/ AddHandle
    \/ GetHandle
    \/ AddHandleRepeatedly

\* Every sequence of calls on one HandleTable, long runs of add_handle that
\* take the counter to its wrap among them.
SpecWrap == Init /\ [][NextWrap]_vars

NextStack ==
    \/ NewProcessMemory
    \/ MapUserPages
    \/ FindAvailableSpace
    \/ GuardStack
    \/ StackUnwrapPanics

\* main loading one module after the other, as far as their memory goes.
SpecStack == Init /\ [][NextStack]_vars

\* ------------------------------------------------------------------ claims

StartersOn(p) == {c \in Starters : starter[c].pc # "idle" /\ starter[c].target = p}

\* Callers whose compare_and_swap found NotReady.
Winners(p) == {c \in StartersOn(p) : starter[c].pc \in {"prepare", "store"}
                                      \/ starter[c].result = "Ok"}

KillIssued(p) == \E k \in Killers : killer[k].pc # "idle" /\ killer[k].target = p

\* C1: of the callers of set_start_arguments on one process at most one gets
\* past the compare_and_swap, every caller that returned got Ok or
\* ProcessAlreadyStarted, the first-schedule frame is written at most once,
\* and on a process made by ProcessStruct::new that nobody killed exactly
\* one caller gets past it (so exactly one returns Ok, all others
\* ProcessAlreadyStarted).
C1_ExactlyOneOk ==
    \A p \in Procs :
        /\ Cardinality(Winners(p)) <= 1
        /\ frameWrites[p] <= 1
        /\ \A c \in StartersOn(p) :
              /\ starter[c].pc = "done" =>
                    starter[c].result \in {"Ok", "ProcessAlreadyStarted"}
              /\ starter[c].result = "Ok" <=> (c \in Winners(p) /\ starter[c].pc = "done")
        /\ (p # InitProc /\ ~KillIssued(p) /\ StartersOn(p) # {}) =>
              Cardinality(Winners(p)) = 1

\* Two callers have returned from set_start_arguments on the same process,
\* one with Ok and one with ProcessAlreadyStarted.
C1_Witness ==
    \E c, d \in Starters :
        /\ c # d
        /\ starter[c].target = starter[d].target
        /\ starter[c].result = "Ok"
        /\ starter[d].result = "ProcessAlreadyStarted"
        /\ frameWrites[starter[c].target] = 1

\* Callers that have run prepare_for_first_schedule.
Prepared(p) == {c \in StartersOn(p) : starter[c].pc = "store" \/ starter[c].result = "Ok"}

\* C2: a call of set_start_arguments that finds NotReady stores Readying and
\* goes on, and its last step stores Stopped and returns Ok; a call that
\* finds any other state returns ProcessAlreadyStarted leaving pstate as it
\* was; and the first-schedule frame is written only by callers that found
\* NotReady.
C2_StartContract ==
    /\ [](\A p \in Procs : frameWrites[p] = Cardinality(Prepared(p)))
    /\ [][\A c \in Starters :
            /\ (starter[c].pc = "idle" /\ starter'[c].pc # "idle") =>
                  IF pstate[starter'[c].target] = "NotReady"
                  THEN /\ pstate'[starter'[c].target] = "Readying"
                       /\ starter'[c].pc = "prepare"
                       /\ starter'[c].result = "none"
                  ELSE /\ pstate' = pstate
                       /\ frameWrites' = frameWrites
                       /\ starter'[c].pc = "done"
                       /\ starter'[c].result = "ProcessAlreadyStarted"
            /\ (starter[c].pc = "store" /\ starter'[c].pc # "store") =>
                  /\ pstate'[starter[c].target] = "Stopped"
                  /\ starter'[c].pc = "done"
                  /\ starter'[c].result = "Ok"]_vars

\* One caller has returned Ok leaving its process Stopped, another has
\* returned ProcessAlreadyStarted on a process that was not NotReady.
C2_Witness ==
    \E c, d \in Starters :
        /\ starter[c].result = "Ok"
        /\ pstate[starter[c].target] = "Stopped"
        /\ starter[d].result = "ProcessAlreadyStarted"
        /\ frameWrites[starter[d].target] = Cardinality(Prepared(starter[d].target))

\* C3: once pstate is Killed, no step changes it.
C3_KilledIsTerminal ==
    [][\A p \in Procs : pstate[p] = "Killed" => pstate'[p] = "Killed"]_vars

\* C4: once kill has stored Killed into a process, that process is never
\* Running again (it is torn down at its next dispatch and does not return
\* to userspace).
C4_KilledNeverRunsAgain ==
    \A k \in Killers :
        killer[k].pc # "idle" => pstate[killer[k].target] # "Running"

NoDuplicates(q) == \A i, j \in 1 .. Len(q) : i # j => q[i] # q[j]

\* No operation is in the middle of its steps.
Quiescent ==
    /\ \A c \in Starters : starter[c].pc \in {"idle", "done"}
    /\ \A k \in Killers : killer[k].pc \in {"idle", "done"}
    /\ \A p \in Procs : upc[p] = "run"

\* C6: between operations, every queued process is Scheduled or Killed, no
\* process is queued twice, and the process in the running slot is Running
\* and not queued.
C6_ReadyQueueInvariant ==
    Quiescent =>
        /\ \A i \in 1 .. Len(queue) : pstate[queue[i]] \in {"Scheduled", "Killed"}
        /\ NoDuplicates(queue)
        /\ current # NoProc =>
              /\ pstate[current] = "Running"
              /\ ~InQueue(queue, current)

\* C7: at most one process is Running.
C7_AtMostOneRunning ==
    Cardinality({p \in Procs : pstate[p] = "Running"}) <= 1

\* After a context switch a process made by ProcessStruct::new is the
\* Running one and the boot process is not.
C7_Witness ==
    \E p \in Procs :
        /\ p # InitProc
        /\ current = p
        /\ pstate[p] = "Running"
        /\ pstate[InitProc] = "Scheduled"

\* The edges of the state machine of specification 4.4.
Edges ==
    {<<"NotReady", "Readying">>, <<"Readying", "Stopped">>,
     <<"Stopped", "Scheduled">>, <<"Scheduled", "Running">>,
     <<"Running", "Scheduled">>, <<"Running", "Stopped">>}
    \cup {<<s, "Killed">> : s \in ProcessState}

\* C8: every change of pstate follows an edge of the state machine.
C8_OnlyEdges ==
    [][\A p \in Procs :
          pstate'[p] # pstate[p] => <<pstate[p], pstate'[p]>> \in Edges]_vars

\* C9: in every reachable state and for every process p,
\* add_to_schedule_queue(p) appends p and makes it Scheduled when p is
\* Stopped, changes nothing when p is Scheduled or Running, and a second
\* call right after the first changes nothing more.
C9_AddToScheduleQueue ==
    \A p \in Procs :
        LET once == add_to_schedule_queue(pstate, queue, current, p)
            twice == add_to_schedule_queue(once.pstate, once.queue, current, p)
        IN  /\ pstate[p] = "Stopped" =>
                  /\ once.queue = Append(queue, p)
                  /\ once.pstate = [pstate EXCEPT ![p] = "Scheduled"]
            /\ pstate[p] \in {"Scheduled", "Running"} =>
                  /\ once.queue = queue
                  /\ once.pstate = pstate
            /\ twice = once

\* The queue holds a Scheduled process put there from Stopped, another
\* process is Stopped, and a Killed process that is not queued exists.
C9_Witness ==
    \E p, q, r \in Procs :
        /\ pstate[p] = "Scheduled" /\ InQueue(queue, p)
        /\ pstate[q] = "Stopped" /\ ~InQueue(queue, q)
        /\ pstate[r] = "Killed" /\ ~InQueue(queue, r) /\ current # r

\* A process that has begun unschedule and not yet returned from it.
Sleeping(p) == upc[p] \in {"stopping", "released"}

\* C5: the guard of L is released by unschedule only once the caller is no
\* longer Running; while a process holds L it stays in the running slot with
\* interrupts disabled; a process that is Stopped inside unschedule is on
\* the wait list of L, so the next signal wakes it; and a signal leaves no
\* process of the wait list Stopped.
C5_NoLostWakeup ==
    /\ [](\A p \in Procs :
            /\ lockHolder = p => (current = p /\ ~interrupts)
            /\ (Sleeping(p) /\ pstate[p] = "Stopped") => InWaiters(p))
    /\ [][\A p \in Procs :
            /\ (lockHolder = p /\ lockHolder' # p) => pstate[p] # "Running"
            /\ (InWaiters(p) /\ waiters' = << >>) => pstate'[p] # "Stopped"]_vars

\* A waiter has gone through unschedule, is Stopped and switched out, is on
\* the wait list, and L is free for a signaller.
C5_Witness ==
    \E p \in Procs :
        /\ pstate[p] = "Stopped"
        /\ upc[p] = "run"
        /\ current # p
        /\ InWaiters(p)
        /\ lockHolder = NoProc
        /\ ~InQueue(queue, p)

\* C10: while the running process's interrupt-disable counter is above 0
\* interrupts are disabled; a step of the running process that raises the
\* counter raises it by one and leaves interrupts disabled, one that lowers
\* it lowers it by one, and interrupts go from disabled to enabled under the
\* same running process only in the step that takes the counter from 1 to 0.
C10_InterruptCounting ==
    /\ [](\A p \in Procs :
            /\ pint_disable_counter[p] \in 0 .. MaxNesting
            /\ (current = p /\ pint_disable_counter[p] > 0) => ~interrupts)
    /\ [][\A p \in Procs :
            /\ pint_disable_counter'[p] # pint_disable_counter[p] =>
                  /\ current = p /\ current' = p
                  /\ \/ /\ pint_disable_counter'[p] = pint_disable_counter[p] + 1
                        /\ ~interrupts'
                     \/ pint_disable_counter'[p] = pint_disable_counter[p] - 1
            /\ (current = p /\ current' = p /\ ~interrupts /\ interrupts') =>
                  /\ pint_disable_counter[p] = 1
                  /\ pint_disable_counter'[p] = 0]_vars

\* The running process holds L inside another SpinLockIRQ: its counter is at
\* the deepest nesting and interrupts are disabled.
C10_Witness ==
    \E p \in Procs :
        /\ current = p
        /\ pint_disable_counter[p] = MaxNesting
        /\ MaxNesting >= 2
        /\ ~interrupts
        /\ lockHolder = p

\* C11: the running slot changes only in the idle loop of schedule() (it
\* was empty), in the schedule() that ends unschedule(), or on the return
\* from the timer IRQ, which is taken only with interrupts enabled and the
\* running process holding no SpinLockIRQ guard; and while the running
\* process holds a guard interrupts are disabled, so no tick preempts it.
C11_NoPreemptionUnderGuard ==
    /\ [](\A p \in Procs :
            (current = p /\ pint_disable_counter[p] > 0) => ~interrupts)
    /\ [][current' # current =>
            \/ current = NoProc
            \/ upc[current] = "released" /\ upc'[current] = "run"
            \/ interrupts /\ pint_disable_counter[current] = 0]_vars

\* A process made by ProcessStruct::new has been switched in, holds a
\* SpinLockIRQ guard outside unschedule, and another process is ready in the
\* queue: a tick now would preempt it.
C11_Witness ==
    \E p \in Procs :
        /\ p # InitProc
        /\ current = p
        /\ upc[p] = "run"
        /\ pint_disable_counter[p] > 0
        /\ ~interrupts
        /\ \E i \in 1 .. Len(queue) : pstate[queue[i]] = "Scheduled"

NextTick ==
    \/ \E c \in Starters, p \in Procs : set_start_arguments_cas(c, p)
    \/ \E c \in Starters : set_start_arguments_prepare(c)
    \/ \E c \in Starters : set_start_arguments_store(c)
    \/ \E k \in Killers, p \in Procs : kill_store(k, p)
    \/ \E k \in Killers : kill_enqueue(k)
    \/ \E p \in Procs : AddToScheduleQueue(p)
    \/ Yield
    \/ Dispatch

\* Processes that are started, queued, preempted by the timer and killed
\* (none of them sleeps), with the scheduling the kernel guarantees: the
\* timer keeps ticking, the idle loop keeps polling the queue, and a call of
\* kill goes on to its second step.
FairSpec ==
    /\ Init
    /\ [][NextTick]_vars
    /\ WF_vars(Yield)
    /\ WF_vars(Dispatch)
    /\ \A k \in Killers : WF_vars(kill_enqueue(k))

\* q2 is q1 with zero or more processes added at the back.
Extends(q1, q2) == Len(q2) >= Len(q1) /\ SubSeq(q2, 1, Len(q1)) = q1

\* No call of set_start_arguments is between its compare_and_swap and its
\* final store on p.
NoStartInFlight(p) ==
    \A c \in Starters : starter[c].pc \in {"prepare", "store"} => starter[c].target # p

\* C12: processes enter the ready queue at the back and leave it at the
\* front; a switch away from a Running process with a Scheduled head runs
\* that head and puts the outgoing process at the back (so two started
\* processes alternate under ticks); a Killed head is torn down at the
\* dispatch that pops it and is not run; every Scheduled process is
\* eventually Running (or killed first); and a started process that was
\* killed is eventually torn down.
C12_FifoProgress ==
    /\ [][/\ Extends(queue, queue') \/ (queue # << >> /\ Extends(Tail(queue), queue'))
          /\ (current' # current /\ queue # << >>) =>
                IF pstate[Head(queue)] = "Killed"
                THEN Head(queue) \in tornDown' /\ current' = NoProc
                ELSE current' = Head(queue)
          /\ (current' # current /\ queue # << >> /\ current # NoProc
                  /\ pstate[current] = "Running") =>
                /\ queue' = Append(Tail(queue), current)
                /\ pstate'[current] = "Scheduled"]_vars
    /\ \A p \in Procs :
          (pstate[p] = "Scheduled") ~> (pstate[p] \in {"Running", "Killed"})
    /\ \A p \in Procs :
          (pstate[p] = "Killed" /\ NoStartInFlight(p)) ~> (p \in tornDown)

\* Two processes were started and take turns, one Running and one Scheduled
\* in the queue, after a third, killed, process was torn down.
C12_Witness ==
    \E p, q, r \in Procs :
        /\ p # q /\ p # InitProc /\ q # InitProc
        /\ current = p /\ pstate[p] = "Running"
        /\ queue = <<q>> /\ pstate[q] = "Scheduled"
        /\ r \in tornDown /\ pstate[r] = "Killed"

\* The five constructors, and those that take a length.
Constructors ==
    {"new_regular", "new_shared", "new_guard", "new_available", "new_system_reserved"}

LengthTaking == {"new_guard", "new_available", "new_system_reserved"}

\* x is a multiple of PAGE_SIZE.
PageAligned(x) == x.off = 0

\* address + length - 1 <= usize::MAX, for a length above 0: the end
\* address + length is at most 2^32.
LastByteFits(address, length) ==
    LET end == Sum(address, length) IN
    end.page < NumPages \/ (end.page = NumPages /\ end.off = 0)

\* C13: every Mapping that exists has a page-aligned address, a page-aligned
\* length above 0, and a last byte address + length - 1 within a usize.
C13_MappingWellFormed ==
    \A i \in 1 .. Len(mappings) :
        LET m == mappings[i] IN
        /\ m.address.page \in 0 .. NumPages - 1
        /\ m.length.page \in 0 .. NumPages - 1
        /\ PageAligned(m.address)
        /\ PageAligned(m.length)
        /\ m.length # Zero
        /\ LastByteFits(m.address, m.length)

\* A constructed Mapping has been split twice, and one of the pieces ends
\* at the last byte of the address space.
C13_Witness ==
    /\ Len(mappings) = 3
    /\ ret.op = "split_at"
    /\ \E i \in 1 .. Len(mappings) :
          mappings[i].address.page + mappings[i].length.page = NumPages

\* C14: a constructor called with an address that is not page-aligned
\* returned InvalidAddress and no Mapping; new_guard, new_available and
\* new_system_reserved called with a length that is 0 or not page-aligned
\* returned InvalidAddress and no Mapping; and called with a page-aligned
\* address, a page-aligned length above 0 and a last byte within a usize
\* they returned a Mapping.
C14_ConstructorValidation ==
    /\ (ret.op \in Constructors /\ ~PageAligned(ret.address)) =>
          (ret.returned = Err("InvalidAddress") /\ mappings = << >>)
    /\ (ret.op \in LengthTaking /\ (ret.length = Zero \/ ~PageAligned(ret.length))) =>
          (ret.returned = Err("InvalidAddress") /\ mappings = << >>)
    /\ (ret.op \in LengthTaking /\ PageAligned(ret.address) /\ PageAligned(ret.length)
            /\ ret.length # Zero /\ LastByteFits(ret.address, ret.length)) =>
          /\ ret.returned.err = "none"
          /\ Len(ret.returned.value) = 1
          /\ ret.returned.value[1].address = ret.address
          /\ ret.returned.value[1].length = ret.length

\* new_available was called with a page-aligned address and a length that
\* is not page-aligned, and returned InvalidAddress.
C14_Witness ==
    /\ ret.op = "new_available"
    /\ PageAligned(ret.address)
    /\ ret.length # Zero
    /\ ~PageAligned(ret.length)
    /\ ret.returned = Err("InvalidAddress")
    /\ mappings = << >>

\* The length a constructor call asked for: the length passed, or the size
\* of the frame list passed (its number of frames times PAGE_SIZE).
RequestedLength(call) ==
    IF call.op \in LengthTaking THEN call.length ELSE Pages(count(call.frames))

C16_LengthMatchesFrames ==
    /\ \A i \in 1 .. Len(mappings) :
          mappings[i].mtype.kind \in {"Regular", "Shared"} =>
              mappings[i].length = Pages(count(mappings[i].mtype.frames))
    /\ \A i \in 1 .. Len(mappings) :
          mappings[i].mtype.kind \notin {"Regular", "Shared"} =>
              mappings[i].mtype.frames = << >>
    /\ (ret.op \in {"new_regular", "new_shared"} /\ ret.address = usize(262144, 0)
            /\ count(ret.frames) = 2) =>
          /\ ret.returned.err = "none"
          /\ ret.returned.value[1].length = usize(8192 \div PAGE_SIZE, 8192 % PAGE_SIZE)

\* A Regular Mapping made of two regions of two frames was split inside its
\* first region: both halves exist and the region was cut in two.
C16_Witness ==
    /\ ret.op = "split_at"
    /\ ret.offset = Pages(1)
    /\ Len(mappings) = 2
    /\ mappings[1].mtype = MappingType("Regular", <<PhysicalMemRegion(16, 1)>>)
    /\ mappings[2].mtype = MappingType("Regular", <<PhysicalMemRegion(17, 1),
                                                     PhysicalMemRegion(32, 2)>>)

\* C17: new_regular and new_shared called with a frame list that holds no
\* frame (an empty list, or zero-sized regions only) returned InvalidAddress
\* and no Mapping.
C17_EmptyFrameList ==
    (ret.op \in {"new_regular", "new_shared"}
        /\ \A i \in 1 .. Len(ret.frames) : ret.frames[i].frames = 0) =>
        /\ ret.returned = Err("InvalidAddress")
        /\ mappings = << >>

\* new_regular was called at a page-aligned address with the longest list
\* of zero-sized regions, and returned InvalidAddress.
C17_Witness ==
    /\ ret.op = "new_regular"
    /\ PageAligned(ret.address)
    /\ Len(ret.frames) = MaxRegions
    /\ MaxRegions >= 2
    /\ \A i \in 1 .. Len(ret.frames) : ret.frames[i].frames = 0
    /\ ret.returned = Err("InvalidAddress")

\* A step that is a call of split_at, with the Mapping it was called on.
SplitStep == mapVars' # mapVars /\ ret'.op = "split_at"
SplitSelf == mappings[ret'.index]

\* offset is page-aligned and strictly inside the Mapping m.
StrictlyInside(offset, m) == PageAligned(offset) /\ offset # Zero /\ Less(offset, m.length)

\* split_at left every Mapping as it was and made no new one.
SplitChangedNothing == mappings' = mappings

C19_BadOffsetIsNoSplit ==
    [][(SplitStep /\ ~StrictlyInside(ret'.offset, SplitSelf)) =>
          (ret'.returned = OkNone /\ SplitChangedNothing)]_vars

\* C19, amended: a call of split_at with a page-aligned offset that is 0 or
\* at least the length of the Mapping returns Ok(None); a call with an
\* offset that is not page-aligned returns the error InvalidAddress; both
\* leave the Mapping unchanged.
C19_BadOffset ==
    [][(SplitStep /\ ~StrictlyInside(ret'.offset, SplitSelf)) =>
          /\ ret'.returned = IF PageAligned(ret'.offset) THEN OkNone
                              ELSE Err("InvalidAddress")
          /\ SplitChangedNothing]_vars

\* split_at was called on an Available Mapping with an offset equal to its
\* length and returned Ok(None), and the Mapping is whole.
C19_Witness ==
    /\ ret.op = "split_at"
    /\ ret.returned = OkNone
    /\ Len(mappings) = 1
    /\ mappings[1].mtype.kind = "Available"
    /\ ret.offset = mappings[1].length

\* C20: a call of split_at on an Available, Guarded or Regular Mapping with
\* a page-aligned offset strictly inside it returns a right half; whenever a
\* right half is returned, the Mapping called on keeps its address and has
\* length offset, the right half starts at address + offset with length
\* length - offset, both have the kind and the flags the Mapping had, the
\* right half starts where the left one ends, and it ends where the Mapping
\* ended; no other Mapping changes.
C20_SplitHalves ==
    [][SplitStep =>
          LET i == ret'.index
              offset == ret'.offset
              old == mappings[i]
          IN  /\ (old.mtype.kind \in {"Available", "Guarded", "Regular"}
                      /\ StrictlyInside(offset, old)) =>
                    ret'.returned.value # << >>
              /\ ret'.returned.value # << >> =>
                    LET left == mappings'[i]
                        right == ret'.returned.value[1]
                    IN  /\ old.mtype.kind \in {"Available", "Guarded", "Regular"}
                        /\ StrictlyInside(offset, old)
                        /\ mappings' = [mappings EXCEPT ![i] = left] \o <<right>>
                        /\ left.address = old.address
                        /\ left.length = offset
                        /\ right.address = Sum(old.address, offset)
                        /\ Sum(right.length, offset) = old.length
                        /\ left.mtype.kind = old.mtype.kind
                        /\ right.mtype.kind = old.mtype.kind
                        /\ left.flags = old.flags
                        /\ right.flags = old.flags
                        /\ Sum(left.address, left.length) = right.address
                        /\ Sum(right.address, right.length) = Sum(old.address, old.length)]_vars

\* A Regular Mapping of three pages with flags u_rw was split at PAGE_SIZE:
\* the left half has one page, the right half two.
C20_Witness ==
    /\ ret.op = "split_at"
    /\ ret.offset = Pages(1)
    /\ ret.returned.value # << >>
    /\ Len(mappings) = 2
    /\ mappings[1].mtype.kind = "Regular"
    /\ mappings[1].flags = "u_rw"
    /\ mappings[1].length = Pages(1)
    /\ mappings[2].length = Pages(2)
    /\ mappings[2].address = Sum(mappings[1].address, Pages(1))
    /\ mappings[2] = ret.returned.value[1]

\* The frames of a frame list, as a set.
FrameSet(frames) == {flatten(frames)[i] : i \in 1 .. Len(flatten(frames))}

\* C21: when split_at on a Regular Mapping returns a right half, the frames
\* of the left half are exactly the first offset / PAGE_SIZE frames of the
\* Mapping, in order, the frames of the right half are exactly the remaining
\* ones, in order, no frame is in both halves, and no frame of the Mapping
\* is missing from both.
C21_SplitPartitionsFrames ==
    [][(SplitStep /\ SplitSelf.mtype.kind = "Regular" /\ ret'.returned.value # << >>) =>
          LET old == flatten(SplitSelf.mtype.frames)
              left == mappings'[ret'.index].mtype.frames
              right == ret'.returned.value[1].mtype.frames
              n == ret'.offset.page
          IN  /\ flatten(left) = SubSeq(old, 1, n)
              /\ flatten(right) = SubSeq(old, n + 1, Len(old))
              /\ FrameSet(left) \cap FrameSet(right) = {}
              /\ FrameSet(left) \cup FrameSet(right) = FrameSet(SplitSelf.mtype.frames)
              /\ Len(flatten(left)) + Len(flatten(right)) = Len(old)]_vars

\* A Regular Mapping over two regions of two frames each was split at
\* PAGE_SIZE, inside its first region: the left half holds one frame in one
\* region, the right half three frames in two regions.
C21_Witness ==
    /\ ret.op = "split_at"
    /\ ret.offset = Pages(1)
    /\ ret.returned.value # << >>
    /\ Len(mappings) = 2
    /\ mappings[1].mtype = MappingType("Regular", <<PhysicalMemRegion(16, 1)>>)
    /\ mappings[2].mtype =
          MappingType("Regular", <<PhysicalMemRegion(17, 1), PhysicalMemRegion(32, 2)>>)

\* The two halves of a split put together again: one Mapping from the start
\* of the left half over both lengths, with the frames of the left half
\* followed by those of the right half.
recombine(left, right) ==
    Mapping(left.address, Sum(left.length, right.length),
            MappingType(left.mtype.kind, left.mtype.frames \o right.mtype.frames),
            left.flags)

\* C22: when split_at returns a right half, the right half starts where the
\* left one ends and the two halves put together cover what the Mapping
\* covered: same address, length, kind, flags and frames in the same order;
\* for an Available or Guarded Mapping the two halves put together are the
\* Mapping itself.
C22_SplitThenRecombine ==
    [][(SplitStep /\ ret'.returned.value # << >>) =>
          LET old == SplitSelf
              left == mappings'[ret'.index]
              right == ret'.returned.value[1]
              whole == recombine(left, right)
          IN  /\ right.address = Sum(left.address, left.length)
              /\ whole.address = old.address
              /\ whole.length = old.length
              /\ whole.mtype.kind = old.mtype.kind
              /\ whole.flags = old.flags
              /\ flatten(whole.mtype.frames) = flatten(old.mtype.frames)
              /\ old.mtype.kind \in {"Available", "Guarded"} => whole = old]_vars

\* A Guarded Mapping of three pages was split at 2 * PAGE_SIZE.
C22_Witness ==
    /\ ret.op = "split_at"
    /\ ret.offset = Pages(2)
    /\ Len(mappings) = 2
    /\ mappings[1].mtype.kind = "Guarded"
    /\ mappings[1].length = Pages(2)
    /\ mappings[2] = ret.returned.value[1]
    /\ mappings[2].length = Pages(1)
    /\ recombine(mappings[1], mappings[2]).length = Pages(3)

\* A step that is a call of allocate_frames_fragmented.
AllocateStep == frameVars' # frameVars /\ fcall'.op = "allocate_frames_fragmented"

\* The frames in use: those marked in the bitmap.
UsedFrames(bm) == {f \in FrameNumbers : bm[f]}

\* The frames of the lists that callers hold.
LiveFrames == UNION {FrameSet(live[i]) : i \in 1 .. Len(live)}

\* C26: allocate_frames_fragmented(n) for n a multiple of the page size
\* either returns runs whose lengths sum to n, that do not overlap each
\* other, any list still held or any frame in use, and marks exactly their
\* frames used, or fails with OutOfMemory and leaves the bitmap as it was;
\* for n not a multiple of the page size it fails and leaves the bitmap as
\* it was; and dropping the list just allocated gives back the bitmap of
\* before the allocation, bit for bit.
C26_AllocateFramesFragmented ==
    [][/\ AllocateStep =>
            LET n == fcall'.bytes
                r == fcall'.returned
            IN  /\ ~PageAligned(n) =>
                      (r.err # "none" /\ bitmap' = bitmap /\ live' = live)
                /\ PageAligned(n) =>
                      \/ /\ r.err = "none"
                         /\ r.value # << >>
                         /\ LET runs == r.value[1] IN
                              /\ Pages(count(runs)) = n
                              /\ count(runs) = n.page
                              /\ \A i \in 1 .. Len(runs) :
                                    /\ runs[i].frames > 0
                                    /\ region_frames(runs[i]) \subseteq FrameNumbers
                                    /\ region_frames(runs[i]) \cap LiveFrames = {}
                                    /\ region_frames(runs[i]) \cap UsedFrames(bitmap) = {}
                                    /\ \A j \in 1 .. Len(runs) :
                                          i # j => region_frames(runs[i])
                                                      \cap region_frames(runs[j]) = {}
                              /\ UsedFrames(bitmap') = UsedFrames(bitmap) \cup FrameSet(runs)
                              /\ live' = Append(live, runs)
                      \/ /\ r = Err("OutOfMemory")
                         /\ bitmap' = bitmap
                         /\ live' = live
       /\ (/\ fcall'.op = "drop"
           /\ fcall.op = "allocate_frames_fragmented"
           /\ fcall.returned.err = "none"
           /\ fcall'.index = Len(live)) =>
                bitmap' = fcall.before]_vars

\* Three pages were asked for while the free frames were in two runs, and
\* the call returned two runs, of two frames and of one.
C26_Witness ==
    /\ fcall.op = "allocate_frames_fragmented"
    /\ fcall.bytes = Pages(3)
    /\ fcall.returned.err = "none"
    /\ Len(fcall.returned.value[1]) = 2
    /\ fcall.returned.value[1][1].frames = 2
    /\ fcall.returned.value[1][2].frames = 1
    /\ live[Len(live)] = fcall.returned.value[1]

\* C23: in every state reached by calls of create_regular_mapping,
\* map_shared, guard and unmap, whether they succeeded or failed, the
\* mappings of the address space are sorted by address, do not overlap,
\* cover the whole address range from its first byte to its last without a
\* gap, and no two adjacent mappings are both Available.
C23_AddressSpaceInvariant ==
    /\ Len(address_space) >= 1
    /\ address_space[1].address = UserLand_start
    /\ last_byte(address_space[Len(address_space)].address,
                 address_space[Len(address_space)].length) = usize_MAX
    /\ \A i \in 1 .. Len(address_space) : address_space[i].length # Zero
    /\ \A i \in 1 .. Len(address_space) - 1 :
          LET m == address_space[i]
              n == address_space[i + 1]
          IN  /\ Less(m.address, n.address)
              /\ Less(last_byte(m.address, m.length), n.address)
              /\ Sum(m.address, m.length) = n.address
              /\ ~(m.mtype.kind = "Available" /\ n.mtype.kind = "Available")

\* The kinds of the mappings of the address space, in order.
Kinds == [i \in 1 .. Len(address_space) |-> address_space[i].mtype.kind]

\* A page was unmapped between a Guarded mapping and an Available one: the
\* page is part of the Available mapping, which is two pages long.
C23_Witness ==
    /\ mcall.op = "unmap"
    /\ mcall.returned = OkNone
    /\ mcall.address = Pages(1)
    /\ mcall.length = Pages(1)
    /\ Kinds = <<"Guarded", "Available", "SystemReserved">>
    /\ address_space[2].address = Pages(1)
    /\ address_space[2].length = Pages(2)

\* A step that is a call on the address space.
MemStep ==
    /\ <<memVars, bitmap>>' # <<memVars, bitmap>>
    /\ mcall'.op \in {"create_regular_mapping", "map_shared", "guard", "unmap"}

\* C24: unmap(a, n) called right after a successful
\* create_regular_mapping(a, n, f) succeeds, leaves the list of mappings,
\* the page tables and the bitmap as they were before the mapping was
\* created, and frees exactly n / PAGE_SIZE frames; unmap(a, n) called right
\* after a successful guard(a, n) succeeds and leaves the list of mappings
\* and the page tables as they were before the guard.
C24_RoundTrips ==
    [][(/\ MemStep
        /\ mcall'.op = "unmap"
        /\ mcall.op \in {"create_regular_mapping", "guard"}
        /\ mcall.returned.err = "none"
        /\ mcall'.address = mcall.address
        /\ mcall'.length = mcall.length) =>
            /\ mcall'.returned = OkNone
            /\ address_space' = snapshot[1]
            /\ page_tables' = snapshot[2]
            /\ bitmap' = snapshot[3]
            /\ mcall.op = "create_regular_mapping" =>
                  /\ UsedFrames(bitmap') \subseteq UsedFrames(bitmap)
                  /\ Cardinality(UsedFrames(bitmap) \ UsedFrames(bitmap'))
                        = mcall.length.page]_vars

\* Two pages were mapped Regular in the middle of an Available mapping next
\* to a Guarded page and unmapped again: the frames are free again.
C24_Witness ==
    /\ mcall.op = "unmap"
    /\ mcall.returned = OkNone
    /\ mcall.address = Pages(1)
    /\ mcall.length = Pages(2)
    /\ Kinds = <<"Guarded", "Available", "SystemReserved">>
    /\ UsedFrames(bitmap) = {0}
    /\ snapshot = <<"create_regular_mapping">>

\* C25: a call of create_regular_mapping, map_shared, guard or unmap that
\* fails leaves the list of mappings, the page tables and the bitmap of
\* allocated frames exactly as they were before the call.
C25_AllOrNothing ==
    [][(MemStep /\ mcall'.returned.err # "none") =>
          /\ address_space' = address_space
          /\ page_tables' = page_tables
          /\ bitmap' = bitmap]_vars

\* create_regular_mapping failed for want of frames after two pages had been
\* mapped Regular: the frames that were still free are free again.
C25_Witness ==
    /\ mcall.op = "create_regular_mapping"
    /\ mcall.returned = OutOfMemory
    /\ Kinds = <<"Regular", "Available", "SystemReserved">>
    /\ address_space[1].length = Pages(2)
    /\ Cardinality(UsedFrames(bitmap)) = 3

\* The ids of the entries of a table.
Ids(table) == {e.id : e \in table}

\* C28: the first add_handle on a new table returns 1; every add_handle
\* returns an id greater than the one the call before it returned and than
\* every id in the table; so the table has one entry per call and no two
\* entries have the same id.
C28_HandleIdsIncrease ==
    [][(handleVars' # handleVars /\ hcall'.op = "add_handle") =>
          /\ phandles = HandleTable_new => hcall'.returned = One
          /\ hcall.op = "add_handle" => Less(hcall.returned, hcall'.returned)
          /\ \A id \in Ids(phandles.table) : Less(id, hcall'.returned)
          /\ hcall'.returned \in Ids(phandles'.table)
          /\ Cardinality(phandles'.table) = Cardinality(phandles.table) + 1
          /\ Cardinality(Ids(phandles'.table)) = Cardinality(phandles'.table)]_vars

\* Three handles were added, the same event twice among them, and the last
\* call returned 3.
C28_Witness ==
    /\ hcall.op = "add_handle"
    /\ hcall.returned = usize(0, 3)
    /\ Ids(phandles.table) = {usize(0, 1), usize(0, 2), usize(0, 3)}
    /\ \E e, f \in phandles.table : e.id # f.id /\ e.handle = f.handle

\* A step of the boot that makes a ProcessStruct.
made == Len(processes') = Len(processes) + 1

\* The ProcessStruct such a step makes.
new_process == processes'[Len(processes')]

\* C27: ProcessStruct::new returns a process in state NotReady with an
\* Inactive address space, an empty handle table whose next id is 1 and an
\* interrupt-disable counter of 0; create_first_process returns a process in
\* state Running whose memory is Active, with an empty handle table and an
\* interrupt-disable counter of 0.
C27_FreshProcesses ==
    [][made =>
         /\ new_process.phandles.table = {}
         /\ new_process.pint_disable_counter = 0
         /\ bootpc = "new" =>
                /\ new_process.pstate = "NotReady"
                /\ new_process.pmemory = "Inactive"
                /\ new_process.phandles.counter = One
         /\ bootpc = "create_first_process" =>
                /\ new_process.pstate = "Running"
                /\ new_process.pmemory = "Active"]_vars

\* Both constructors have run: the first process exists and main has just made
\* the process of a module.
C27_Witness ==
    /\ bootpc = "stack"
    /\ Len(processes) = 2
    /\ processes[1].pstate = "Running"
    /\ processes[2].pstate = "NotReady"

\* The three calls main makes for a module, in order.
calls_for(name) ==
    <<Event("ProcessStruct::new", name), Event("ThreadStruct::new", name),
      Event("ThreadStruct::start", name)>>

\* The calls main is to make for modules 1..N, module 0 left out.
RECURSIVE convention(_, _)
convention(tags, n) ==
    IF n >= Len(tags) THEN << >>
    ELSE calls_for(tags[n + 1]) \o convention(tags, n + 1)

is_prefix(s, t) == Len(s) <= Len(t) /\ SubSeq(t, 1, Len(s)) = s

\* C29: main skips module 0 and, for each of modules 1..N in the boot
\* loader's order, makes one process named after the module, makes its thread
\* and starts it exactly once before it handles the next module.
C29_ModuleConvention ==
    /\ is_prefix(events, convention(module_tags, 1))
    /\ bootpc = "idle" => events = convention(module_tags, 1)
    /\ \A i \in 2 .. Len(processes) : processes[i].name = module_tags[i]
    /\ bootpc = "idle" => Len(processes) = Len(module_tags) \/ module_tags = << >>

\* main has loaded two modules of different names and reached its idle loop.
C29_Witness ==
    /\ bootpc = "idle"
    /\ Len(module_tags) = 3
    /\ module_tags[2] # module_tags[3]
    /\ Len(events) = 6
    /\ processes[3].pstate = "Scheduled"

\* The statements of do_panic that the sequence names, in its order.
panic_sequence ==
    <<"permanently_disable_interrupts", "force_unlock", "panic_message",
      "dump_stack", "current_thread", "hlt">>

\* The statements of s that the sequence names.
named(s) == SelectSeq(s, LAMBDA x : \E i \in 1 .. Len(panic_sequence) : panic_sequence[i] = x)

\* The lines of s that the sequence names.
lines(s) == SelectSeq(s, LAMBDA x : x \in {"panic_message", "dump_stack", "current_thread"})

\* A panic has begun: do_panic has run its first statement.
begun == panicked # << >>

\* C30: do_panic first disables interrupts permanently, then force-unlocks
\* the serial logger, then prints the panic message, the stack dump and the
\* current thread, then halts forever; it never returns, and interrupts are
\* never enabled again once a panic has begun.
C30_PanicSequence ==
    [][/\ is_prefix(named(panicked'), panic_sequence)
       /\ is_prefix(lines(serial'), lines(named(panicked')))
       /\ begun' => ~interrupts' /\ ticks' = ticks
       /\ Len(named(panicked')) >= 2 => ~logger_locked'
       /\ bootpc \in {"panic", "halted"} => bootpc' \in {"panic", "halted"}
       /\ bootpc = "halted" => FALSE]_vars

\* do_panic has run to its HLT loop and written its lines, timer interrupts
\* having been taken before the panic.
C30_Witness ==
    /\ bootpc = "halted"
    /\ ticks > 0
    /\ lines(serial) = <<"panic_message", "dump_stack", "current_thread">>
    /\ ~interrupts
    /\ ~logger_locked

\* The translation as the specification states it.
translation ==
    [k \in {"Available", "Guarded", "Regular", "Shared", "SystemReserved"} |->
        CASE k = "Available" -> "Unmapped"
          [] k = "Guarded" -> "Reserved"
          [] k = "Regular" -> "Normal"
          [] k = "Shared" -> "SharedMemory"
          [] k = "SystemReserved" -> "Reserved"]

\* C31: the memory type reported for a mapping is Unmapped for Available,
\* Reserved for Guarded, Normal for Regular, SharedMemory for Shared and
\* Reserved for SystemReserved, and every mapping has one of these five types.
C31_TypeTranslation ==
    [][ret'.op = "MemoryType::from" =>
          /\ mappings[ret'.index].mtype.kind \in DOMAIN translation
          /\ ret'.returned = Ok(translation[mappings[ret'.index].mtype.kind])
          /\ mappings' = mappings]_vars

\* The type of a Guarded mapping was queried and Reserved reported.
C31_Witness ==
    /\ ret.op = "MemoryType::from"
    /\ mappings[ret.index].mtype.kind = "Guarded"
    /\ ret.returned = Ok("Reserved")

\* The processes whose first-schedule frame prepare_for_first_schedule is
\* writing: a caller of set_start_arguments is past its compare_and_swap and
\* has not finished the frame.
Preparing == {starter[c].target : c \in {d \in Starters : starter[d].pc = "prepare"}}

\* The process is in the ready queue, in the running slot, or was taken from
\* the queue and torn down.
Dispatched(p) == InQueue(queue, p) \/ current = p \/ p \in tornDown

\* C32: a process in NotReady or Readying is neither in the ready queue nor
\* dispatched, and no process is in the ready queue or dispatched while
\* prepare_for_first_schedule is writing its first-schedule frame, whatever
\* the interleaving of set_start_arguments, kill, add_to_schedule_queue and
\* the dispatcher.
C32_NeverScheduledWhilePreparing ==
    /\ \A p \in Procs : pstate[p] \in {"NotReady", "Readying"} => ~Dispatched(p)
    /\ \A p \in Preparing : ~Dispatched(p)

\* A step that is a call on the HandleTable.
HandleStep(op) == handleVars' # handleVars /\ hcall'.op = op

\* C33: add_handle inserts the handle under an id that was vacant, grows the
\* table by exactly one entry and leaves every entry it had as it was;
\* get_handle of an id in the table yields the handle of that id's entry and
\* get_handle of an absent id fails, the table being the same after either.
C33_AddNeverOverwrites ==
    [][/\ HandleStep("add_handle") =>
            /\ ~contains_key(phandles.table, hcall'.returned)
            /\ phandles'.table =
                   phandles.table \cup {Entry(hcall'.returned, hcall'.handle)}
            /\ Cardinality(phandles'.table) = Cardinality(phandles.table) + 1
       /\ HandleStep("get_handle") =>
            /\ phandles' = phandles
            /\ IF hcall'.returned \in Ids(phandles.table)
               THEN Entry(hcall'.returned, hcall'.handle) \in phandles.table
               ELSE hcall'.handle = "panic"]_vars

\* The second of three handles, added under id 2, was got back after the
\* third was added.
C33_Witness ==
    /\ hcall = HandleCall("get_handle", usize(0, 2), "event2")
    /\ Cardinality(phandles.table) = 3
    /\ Entry(usize(0, 1), "event1") \in phandles.table
    /\ Entry(usize(0, 3), "event1") \in phandles.table

\* C34: across a wrap of the 32-bit counter add_handle returns only ids that
\* are at least 1 and were vacant when it was called: an id that is in the
\* table is not handed out again, and id 0 is never handed out.
C34_NoZeroNoReuseAcrossWrap ==
    [][HandleStep("add_handle") =>
          /\ Less(Zero, hcall'.returned)
          /\ ~contains_key(phandles.table, hcall'.returned)]_vars

\* The memory mem holds a stack at address: a Guarded page there, one Regular
\* user read-write mapping over the four pages above it, the page below the
\* lowest page of that mapping being the Guarded one, the page tables holding
\* nothing for the guard page and a user read-write frame for each of the
\* four, and pointer at the end of the Regular mapping.
StackLayout(mem, address, pointer) ==
    \E i \in 1 .. Len(mem.space) - 1 :
        LET lowest == mem.space[i]
            above == mem.space[i + 1]
        IN  /\ lowest.address = address
            /\ lowest.length = Pages(1)
            /\ lowest.mtype.kind = "Guarded"
            /\ above.address = VirtualAddress_add(address, Pages(1))
            /\ above.length = Pages(4)
            /\ above.mtype.kind = "Regular"
            /\ above.flags = "u_rw"
            /\ mapping_at(mem.space, Sub(above.address, Pages(1))) = i
            /\ mem.tables[address.page] = NotPresent
            /\ \A page \in above.address.page .. above.address.page + 3 :
                   /\ mem.tables[page] # NotPresent
                   /\ mem.tables[page][2] = "u_rw"
            /\ pointer = Sum(above.address, above.length)
            /\ pointer = VirtualAddress_add(address, Pages(5))

\* The five pages from address are inside one Available mapping of space.
AvailableRange(space, address) ==
    LET i == mapping_at(space, address) IN
    /\ space[i].mtype.kind = "Available"
    /\ inside(space[i], address, Pages(5))

\* The frames the allocator has left.
FreeFrames(bm) == FrameNumbers \ UsedFrames(bm)

\* The steps of main on the range find_available_space returned, as far as
\* both hold whether or not frames are left: the range is five Available
\* pages, and guard succeeds on it and makes its lowest page Guarded.
StackRangeSteps ==
    /\ stackpc = "find" /\ stackpc' = "guard" => AvailableRange(pmemlock.space, stack')
    /\ stackpc = "guard" =>
          /\ stackpc' = "create"
          /\ pmemlock'.space[mapping_at(pmemlock'.space, stack)] =
                 new_guard(stack, Pages(1)).value[1]

\* The statement as the specification makes it: both mapping calls succeed
\* on a range that find_available_space returned, and the stack is laid out
\* in it.
C35_BothMappingCallsSucceed ==
    [][/\ StackRangeSteps
       /\ stackpc = "create" =>
             /\ stackpc' = "done"
             /\ StackLayout(pmemlock', stack', user_sp')]_vars

\* C35: in the 5-page range find_available_space(5 * PAGE_SIZE) returned,
\* guard succeeds and the lowest page becomes Guarded; when four frames are
\* free create_regular_mapping succeeds, the four pages above become one
\* Regular user read-write mapping, the stack pointer is the end of that
\* mapping (stack + 5 * PAGE_SIZE) and the page directly below the stack is
\* the guard page; when fewer are free create_regular_mapping fails, leaving
\* the memory and the allocator as they were, and main panics.
C35_UserStackLayout ==
    [][/\ StackRangeSteps
       /\ stackpc = "create" =>
             IF Cardinality(FreeFrames(bitmap)) >= 4
             THEN /\ stackpc' = "done"
                  /\ StackLayout(pmemlock', stack', user_sp')
             ELSE /\ stackpc' = "nostack"
                  /\ pmemlock' = pmemlock
                  /\ bitmap' = bitmap
       /\ stackpc = "nostack" => stackpc' = "panic"]_vars

\* A module's stack was built.
C35_Witness ==
    /\ stackpc = "done"
    /\ StackLayout(pmemlock, stack, user_sp)

====
